---- MODULE Spec2Model ----
(***************************************************************************)
(* A model of the compliance annotator of decipher6/comply:                *)
(*   backend/app/services/annotate.py   text location and annotation       *)
(*   backend/app/services/report.py     aggregation of findings            *)
(*   backend/app/services/footnotes.py  footnotes and formatting checks    *)
(*   backend/app/services/rules.py      risk level and approval            *)
(*   backend/app/routes/analyze.py      the request handler                *)
(* Texts are strings; a string is a sequence of characters, so Len, SubSeq *)
(* and \o are Python's len, slicing and +.  Python's None is the empty     *)
(* tuple <<>> and a present value v is <<v>>.                              *)
(***************************************************************************)
EXTENDS Integers, Sequences, FiniteSets, TLC

VARIABLES
    \* ---- deduplicate_violation_details applied to a list (SpecDedup)
    vd_pc, vd_input, vd_output,
    \* ---- find_text_in_pdf / find_text_in_pdf_with_fallbacks (SpecLocate)
    loc_doc, loc_exact, loc_keyword, loc_call, loc_query, loc_results,
    loc_searched,                 \* history: the queries given to find_text_in_pdf
    \* ---- one request to analyze_pdf (Spec)
    pc,                           \* where the handler stands
    pdf_doc,                      \* the uploaded document
    all_detected,                 \* detect_jurisdictions_and_disclaimers' result
    gemini_api_key,               \* settings.GEMINI_API_KEY is set
    red_flag_details, document_checklist_results, disclaimer_checklist_results,
    \* ---- the fields of the AnalysisResult
    checklist_results, missing_required_phrases,
    is_approved,                  \* AnalysisResult.is_approved, None before it is set
    footnote_issues, formatting_issues, footnotes_locations,
    \* ---- process_pdf_page_by_page
    comments, color_index, annots, det_index,
    issue_log,                    \* history: every issue processed, with its regions
    footnote_log,                 \* history: every footnote issue's comment and highlight
    save_log,                     \* history: the saves attempted and how they ended
    returned,                     \* what process_pdf_page_by_page gave its caller
    response,                     \* what analyze_pdf answered
    call_log,                     \* history: the checks generate_analysis_result invoked
    chunks_sent,                  \* history: chunks submitted to the classifier
    \* ---- run_footnote_and_formatting_checks and find_ref_bbox_on_page (SpecFootnotes)
    fn_pc, fn_doc,
    fn_fail,                      \* the page whose get_text raises, 0 for none
    footnotes, footnote_locations, fn_issues, unusual_color_issues,
    fn_continuations,             \* history: where each continuation line went
    fn_query, candidate_bbox,
    \* ---- the annotation writes of process_pdf_page_by_page (SpecWrites)
    w_pc,
    w_plan,                       \* located regions to write, per kind of finding
    w_done,                       \* regions gone through, per kind
    w_annots, w_comments,
    w_fault,                      \* history: the write that raised
    \* ---- one request analysed under two completion orders (SpecOrder)
    o_pc, o_doc, o_detected,
    o_items, o_chunks,            \* the classifier's responses, in submission order
    o_order,                      \* the completion order of the second analysis
    o_gathered, o_findings,
    o_outputs,                    \* the findings and comments of each analysis
    \* ---- classify_risk_level and determine_approval_status (SpecRules)
    rule_pc, rule_missing, rule_violations, rule_risk, rule_approved

dvars == <<vd_pc, vd_input, vd_output>>
lvars == <<loc_doc, loc_exact, loc_keyword, loc_call, loc_query, loc_results,
           loc_searched>>
ivars == <<pdf_doc, all_detected, gemini_api_key>>
rvars == <<red_flag_details, document_checklist_results, disclaimer_checklist_results>>
resvars == <<checklist_results, missing_required_phrases, is_approved,
             footnote_issues, formatting_issues, footnotes_locations>>
avars == <<comments, color_index, annots, det_index, issue_log, footnote_log>>
svars == <<save_log, returned, response>>
hvars == <<call_log, chunks_sent>>
pvars == <<pc, ivars, rvars, resvars, avars, svars, hvars>>
fvars == <<fn_pc, fn_doc, fn_fail, footnotes, footnote_locations, fn_issues,
           unusual_color_issues, fn_continuations, fn_query, candidate_bbox>>
wvars == <<w_pc, w_plan, w_done, w_annots, w_comments, w_fault>>
ovars == <<o_pc, o_doc, o_detected, o_items, o_chunks, o_order, o_gathered,
           o_findings, o_outputs>>
uvars == <<rule_pc, rule_missing, rule_violations, rule_risk, rule_approved>>
xvars == <<fvars, wvars, ovars, uvars>>
vars == <<dvars, lvars, pvars, uvars, xvars>>

-----------------------------------------------------------------------------
(* Python values *)

None == <<>>
Some(v) == <<v>>
\* Python truthiness of an Optional[str]: None and "" are false
Truthy(opt) == opt # None /\ opt[1] # ""
\* `a or b` on Optional[str]
OrElse(a, b) == IF Truthy(a) THEN a ELSE b
Min(a, b) == IF a < b THEN a ELSE b
Max(a, b) == IF a > b THEN a ELSE b

\* s[:n]
Take(s, n) == SubSeq(s, 1, Min(n, Len(s)))
\* s[n:]
Drop(s, n) == SubSeq(s, n + 1, Len(s))
Char(s, i) == SubSeq(s, i, i)

Whitespace == {" ", "\t", "\n"}

\* str.strip()
Strip(s) ==
    LET Ink(i) == Char(s, i) \notin Whitespace
    IN IF \A i \in 1..Len(s) : ~Ink(i) THEN ""
       ELSE SubSeq(s, CHOOSE i \in 1..Len(s) : Ink(i) /\ \A j \in 1..(i - 1) : ~Ink(j),
                      CHOOSE i \in 1..Len(s) : Ink(i) /\ \A j \in (i + 1)..Len(s) : ~Ink(j))

LowerChar(c) ==
    CASE c = "A" -> "a" [] c = "B" -> "b" [] c = "C" -> "c" [] c = "D" -> "d"
      [] c = "E" -> "e" [] c = "F" -> "f" [] c = "G" -> "g" [] c = "H" -> "h"
      [] c = "I" -> "i" [] c = "J" -> "j" [] c = "K" -> "k" [] c = "L" -> "l"
      [] c = "M" -> "m" [] c = "N" -> "n" [] c = "O" -> "o" [] c = "P" -> "p"
      [] c = "Q" -> "q" [] c = "R" -> "r" [] c = "S" -> "s" [] c = "T" -> "t"
      [] c = "U" -> "u" [] c = "V" -> "v" [] c = "W" -> "w" [] c = "X" -> "x"
      [] c = "Y" -> "y" [] c = "Z" -> "z" [] OTHER -> c

\* "".join(pieces), by halves so that the evaluation stays shallow
RECURSIVE JoinRange(_, _, _)
JoinRange(pieces, lo, hi) ==
    IF lo > hi THEN ""
    ELSE IF lo = hi THEN pieces[lo]
    ELSE LET mid == (lo + hi) \div 2
         IN JoinRange(pieces, lo, mid) \o JoinRange(pieces, mid + 1, hi)

Join(pieces) == JoinRange(pieces, 1, Len(pieces))

\* the elements of a finite set of integers in ascending order
SortedSeq(S) ==
    [k \in 1..Cardinality(S) |->
        CHOOSE x \in S : Cardinality({y \in S : y < x}) = k - 1]

\* str.lower()
Lower(s) == Join([i \in 1..Len(s) |-> LowerChar(Char(s, i))])

\* " ".join(s.split()): runs of whitespace become one space, none at the ends
JoinSplit(s) ==
    LET IsWs(i) == Char(s, i) \in Whitespace
        Piece(i) ==
            IF IsWs(i) THEN ""
            ELSE IF i > 1 /\ IsWs(i - 1) /\ (\E j \in 1..(i - 1) : ~IsWs(j))
                 THEN " " \o Char(s, i)
                 ELSE Char(s, i)
    IN Join([i \in 1..Len(s) |-> Piece(i)])

\* the positions at which needle occurs in hay
Occurrences(hay, needle) ==
    {i \in 1..(Len(hay) - Len(needle) + 1) : SubSeq(hay, i, i + Len(needle) - 1) = needle}

\* needle in hay
Contains(hay, needle) == Occurrences(hay, needle) # {}

\* s.split(sep) for a one-character separator
Split(s, sep) ==
    LET cuts == SortedSeq(Occurrences(s, sep))
        n == Len(cuts)
        From(k) == IF k = 1 THEN 1 ELSE cuts[k - 1] + 1
        To(k) == IF k = n + 1 THEN Len(s) ELSE cuts[k] - 1
    IN [k \in 1..(n + 1) |-> SubSeq(s, From(k), To(k))]

Range(seq) == {seq[i] : i \in 1..Len(seq)}

-----------------------------------------------------------------------------
(* report.py: the dedup key and deduplicate_violation_details *)

NormKeyLen == 120
DescKeyLen == 80

\* ViolationDetail(violation, exact_text)
ViolationDetail(violation, exact_text) ==
    [violation |-> violation, exact_text |-> exact_text]

\* _normalize_exact_key(exact): "" for None, "" and all-whitespace text
_normalize_exact_key(exact) ==
    IF ~Truthy(exact) \/ Strip(exact[1]) = "" THEN ""
    ELSE Take(JoinSplit(Strip(Lower(exact[1]))), NormKeyLen)

\* a plausible slip: the description normalized like a quote
DedupKeyNormalizedDesc(v) ==
    IF Truthy(v.exact_text) THEN _normalize_exact_key(v.exact_text)
    ELSE "desc:" \o Take(JoinSplit(Strip(Lower(v.violation))), NormKeyLen)

\* the key of line 735
DedupKey(v) ==
    IF Truthy(v.exact_text) THEN _normalize_exact_key(v.exact_text)
    ELSE "desc:" \o Take(v.violation, DescKeyLen)

RECURSIVE DedupLoop(_, _, _, _)
DedupLoop(vds, i, seen_keys, out) ==
    IF i > Len(vds) THEN out
    ELSE LET key == DedupKey(vds[i])
         IN IF key \in seen_keys
            THEN DedupLoop(vds, i + 1, seen_keys, out)
            ELSE DedupLoop(vds, i + 1, seen_keys \cup {key}, Append(out, vds[i]))

\* a plausible slip: a later finding of a key replaces the one kept
RECURSIVE DedupLoopKeepLast(_, _, _)
DedupLoopKeepLast(vds, i, out) ==
    IF i > Len(vds) THEN out
    ELSE LET key == DedupKey(vds[i])
             SameKey(w) == DedupKey(w) = key
             Replace(w) == IF SameKey(w) THEN vds[i] ELSE w
         IN IF \E j \in 1..Len(out) : SameKey(out[j])
            THEN DedupLoopKeepLast(vds, i + 1, [j \in 1..Len(out) |-> Replace(out[j])])
            ELSE DedupLoopKeepLast(vds, i + 1, Append(out, vds[i]))

deduplicate_keep_last(vds) == DedupLoopKeepLast(vds, 1, <<>>)

deduplicate_violation_details(vds) == DedupLoop(vds, 1, {}, <<>>)

-----------------------------------------------------------------------------
(* annotate.py: the text locator.  A document is the sequence of its       *)
(* pages' texts; page.search_for(needle) is exact substring occurrence and *)
(* gives one rectangle per occurrence, in reading order.  A rectangle is   *)
(* [pos, len]: where the hit starts on the page and how long it is, so     *)
(* (round(x0,1), round(y0,1)) is pos and get_textbox reads the text back.  *)

MinQueryLen == 3
ShortTextLen == 50
SentenceMinLen == 20
MaxSentences == 2
Prefix80 == 80
Prefix40 == 40
Prefix20 == 20
KeywordMinLen == 2

Rect(pos, len) == [pos |-> pos, len |-> len]

\* page.search_for(needle)
search_for(page_text, needle) ==
    IF needle = "" THEN <<>>
    ELSE LET hits == SortedSeq(Occurrences(page_text, needle))
         IN [k \in 1..Len(hits) |-> Rect(hits[k], Len(needle))]

\* page.get_textbox(rect)
get_textbox(page_text, rect) == SubSeq(page_text, rect.pos, rect.pos + rect.len - 1)

\* lines 107-111: append the rectangles whose rect_key is not in seen_rects;
\* seen_rects is the set of keys of the results appended so far
RECURSIVE AddInstances(_, _, _)
AddInstances(results, page_num, rects) ==
    IF rects = <<>> THEN results
    ELSE LET rect == Head(rects)
             seen == \E k \in 1..Len(results) :
                        /\ results[k].page_num = page_num
                        /\ results[k].rect.pos = rect.pos
         IN AddInstances(IF seen THEN results
                         ELSE Append(results, [page_num |-> page_num, rect |-> rect]),
                         page_num, Tail(rects))

\* line 134: [s.strip() for s in parts if len(s.strip()) > 20]
RECURSIVE Sentences(_)
Sentences(parts) ==
    IF parts = <<>> THEN <<>>
    ELSE (IF Len(Strip(Head(parts))) > SentenceMinLen
          THEN <<Strip(Head(parts))>> ELSE <<>>) \o Sentences(Tail(parts))

\* the needles of strategies 1-4 for a cleaned search text, in order
SearchNeedles(search_text) ==
    LET parts == Split(search_text, ".")
        sentences == Sentences(parts)
    IN <<search_text>>
       \o (IF search_text # Lower(search_text) THEN <<Lower(search_text)>> ELSE <<>>)
       \o (IF Len(search_text) > ShortTextLen
           THEN <<Take(search_text, ShortTextLen)>> ELSE <<>>)
       \o (IF Len(parts) > 1 THEN Take(sentences, MaxSentences) ELSE <<>>)

RECURSIVE SearchPage(_, _, _, _)
SearchPage(results, page_text, page_num, needles) ==
    IF needles = <<>> THEN results
    ELSE SearchPage(AddInstances(results, page_num, search_for(page_text, Head(needles))),
                    page_text, page_num, Tail(needles))

\* a plausible slip: range(len(doc) - 1), the last page never searched
RECURSIVE SearchPagesButLast(_, _, _, _)
SearchPagesButLast(results, doc, page_num, needles) ==
    IF page_num >= Len(doc) - 1 THEN results
    ELSE SearchPagesButLast(SearchPage(results, doc[page_num + 1], page_num, needles),
                            doc, page_num + 1, needles)

RECURSIVE SearchPages(_, _, _, _)
SearchPages(results, doc, page_num, needles) ==
    IF page_num >= Len(doc) THEN results
    ELSE SearchPages(SearchPage(results, doc[page_num + 1], page_num, needles),
                     doc, page_num + 1, needles)

\* a plausible slip: the length guard of line 99 dropped
find_text_in_pdf_unguarded(doc, search_text) ==
    LET cleaned == Strip(search_text)
    IN IF cleaned = "" THEN <<>>
       ELSE SearchPages(<<>>, doc, 0, SearchNeedles(cleaned))

\* find_text_in_pdf(doc, search_text): page numbers are 0-based
find_text_in_pdf(doc, search_text) ==
    LET cleaned == Strip(search_text)
    IN IF cleaned = "" \/ Len(cleaned) < MinQueryLen THEN <<>>
       ELSE SearchPages(<<>>, doc, 0, SearchNeedles(cleaned))

\* a plausible slip: the keyword searched before the quote
fallback_keyword_first(doc, exact_text, keyword_fallback) ==
    LET Try(q) == [query |-> Some(q), results |-> find_text_in_pdf(doc, q)]
    IN IF Truthy(keyword_fallback) /\ find_text_in_pdf(doc, keyword_fallback[1]) # <<>>
       THEN Try(Strip(keyword_fallback[1]))
       ELSE IF Truthy(exact_text) THEN Try(Strip(exact_text[1]))
       ELSE [query |-> None, results |-> <<>>]

\* find_text_in_pdf_with_fallbacks, with the query whose search is returned
\* (None when no search is returned)
fallback_search(doc, exact_text, keyword_fallback) ==
    LET Try(q) == [query |-> Some(q), results |-> find_text_in_pdf(doc, q)]
        keyword_step ==
            IF Truthy(keyword_fallback) /\ Len(Strip(keyword_fallback[1])) >= KeywordMinLen
            THEN Try(Strip(keyword_fallback[1]))
            ELSE [query |-> None, results |-> <<>>]
    IN IF Truthy(exact_text) /\ Len(Strip(exact_text[1])) >= MinQueryLen
       THEN LET e == exact_text[1]
                r0 == Try(Strip(e))
                r80 == Try(Strip(Take(e, Prefix80)))
                r40 == Try(Strip(Take(e, Prefix40)))
                r20 == Try(Strip(Take(e, Prefix20)))
            IN IF r0.results # <<>> THEN r0
               ELSE IF Len(e) > Prefix80 /\ r80.results # <<>> THEN r80
               ELSE IF Len(e) > Prefix40 /\ r40.results # <<>> THEN r40
               ELSE IF Len(e) > Prefix20 /\ r20.results # <<>> THEN r20
               ELSE keyword_step
       ELSE keyword_step

find_text_in_pdf_with_fallbacks(doc, exact_text, keyword_fallback) ==
    fallback_search(doc, exact_text, keyword_fallback).results

\* lines 31-45: the queries of the quote's steps, each under its length guard
ExactSteps(e) ==
    <<Strip(e)>>
    \o (IF Len(e) > Prefix80 THEN <<Strip(Take(e, Prefix80))>> ELSE <<>>)
    \o (IF Len(e) > Prefix40 THEN <<Strip(Take(e, Prefix40))>> ELSE <<>>)
    \o (IF Len(e) > Prefix20 THEN <<Strip(Take(e, Prefix20))>> ELSE <<>>)

\* the steps gone through from step i on: `if results: return results` ends
\* them at the first search with a region
RECURSIVE SearchedUntilHit(_, _, _)
SearchedUntilHit(doc, steps, i) ==
    IF i > Len(steps) THEN steps
    ELSE IF find_text_in_pdf(doc, steps[i]) # <<>> THEN Take(steps, i)
    ELSE SearchedUntilHit(doc, steps, i + 1)

\* lines 46-48: the keyword is searched when no step has returned
KeywordSearch(keyword_fallback, returned_early) ==
    IF ~returned_early /\ Truthy(keyword_fallback)
       /\ Len(Strip(keyword_fallback[1])) >= KeywordMinLen
    THEN <<Strip(keyword_fallback[1])>>
    ELSE <<>>

\* the arguments of the calls of find_text_in_pdf that one call of
\* find_text_in_pdf_with_fallbacks makes, in order
SearchesMade(doc, exact_text, keyword_fallback) ==
    LET searched == IF Truthy(exact_text) /\ Len(Strip(exact_text[1])) >= MinQueryLen
                    THEN SearchedUntilHit(doc, ExactSteps(exact_text[1]), 1)
                    ELSE <<>>
    IN searched \o KeywordSearch(keyword_fallback,
                      searched # <<>>
                      /\ find_text_in_pdf(doc, searched[Len(searched)]) # <<>>)

-----------------------------------------------------------------------------
(* models.py: the records the analysis passes around *)

MissingPhrase(phrase, reason, exact_highlight_text) ==
    [phrase |-> phrase, reason |-> reason, exact_highlight_text |-> exact_highlight_text]

ChecklistResult(jurisdiction, missing_required, violations, violation_details) ==
    [jurisdiction |-> jurisdiction, missing_required |-> missing_required,
     violations |-> violations, violation_details |-> violation_details]

DetectedDisclaimer(text, jurisdiction) == [text |-> text, jurisdiction |-> jurisdiction]

FootnoteIssue(page, message, reference, bbox) ==
    [page |-> page, message |-> message, reference |-> reference, bbox |-> bbox]

FormattingIssue(page, issue_type, message, text, color_hex, bbox) ==
    [page |-> page, issue_type |-> issue_type, message |-> message,
     text |-> text, color_hex |-> color_hex, bbox |-> bbox]

\* [v.violation for v in vd]
ViolationsOf(vd) == [i \in 1..Len(vd) |-> vd[i].violation]

-----------------------------------------------------------------------------
(* report.py: scan_document_red_flags.  A regular expression is modelled   *)
(* by the lowercase strings of its language that are built from single     *)
(* spaces and the percentages used in the documents; re.IGNORECASE is the   *)
(* search in the lowercased text.                                          *)

RedFlagQuoteLen == 150
RedFlagMinLen == 10

Percents == {"5%", "12%", "100%"}
Gains == {"return", "profit", "gain", "growth", "yield", "income"}

RedFlagPatterns ==
    << [instances |-> {"guaranteed " \o g : g \in Gains}
                      \cup {"guarantee " \o n : n \in Percents}
                      \cup {"guarantee of " \o n : n \in Percents},
        violation_desc |-> "Guaranteed return or profit claim"],
       [instances |-> {n \o " " \o g : n \in Percents, g \in Gains \ {"income"}}
                      \cup {n \o g : n \in Percents, g \in Gains \ {"income"}},
        violation_desc |-> "Specific percentage return/gain claim"],
       [instances |-> {p \o " " \o g : p \in {"promise", "promised", "promises"},
                                       g \in {"return", "profit", "gain"}}
                      \cup {p \o " of " \o g : p \in {"promise", "promised", "promises"},
                                               g \in {"return", "profit", "gain"}},
        violation_desc |-> "Promise of return or profit"],
       [instances |-> {f \o " the future " \o v \o " of" : f \in {"forecast", "predict"},
                                                          v \in {"price", "value"}}
                      \cup {f \o " the " \o v \o " of" : f \in {"forecast", "predict"},
                                                        v \in {"price", "value"}},
        violation_desc |-> "Forecast of future price"],
       [instances |-> {"100% " \o g : g \in {"return", "gain", "growth", "safe"}}
                      \cup {"100%" \o g : g \in {"return", "gain", "growth", "safe"}},
        violation_desc |-> "100% return or similar claim"],
       [instances |-> {"we guarantee ", "we promise ", "guarantee ", "promise "},
        violation_desc |-> "We guarantee/promise statement"],
       [instances |-> {"false or misleading", "misleading statement"},
        violation_desc |-> "False or misleading statement reference"] >>

\* lines 686-689: the text of every page followed by a newline
FullText(doc) == Join([i \in 1..Len(doc) |-> doc[i] \o "\n"])

\* re.finditer: the matches of one pattern, leftmost first, none inside another
PatternMatches(full_text_lower, instances) ==
    LET cands == UNION {{[pos |-> i, len |-> Len(w)] : i \in Occurrences(full_text_lower, w)}
                        : w \in instances}
        Beaten(c) == \E d \in cands :
                        \/ d.pos < c.pos /\ d.pos + d.len > c.pos
                        \/ d.pos = c.pos /\ d.len > c.len
        kept == {c \in cands : ~Beaten(c)}
        starts == SortedSeq({c.pos : c \in kept})
    IN [k \in 1..Len(starts) |-> CHOOSE c \in kept : c.pos = starts[k]]

\* lines 709-718 for the matches of one pattern
RECURSIVE ScanMatches(_, _, _, _, _)
ScanMatches(full_text, matches, violation_desc, seen_quotes, details) ==
    IF matches = <<>> THEN [seen_quotes |-> seen_quotes, details |-> details]
    ELSE LET m == Head(matches)
             exact == Take(Strip(SubSeq(full_text, m.pos, m.pos + m.len - 1)), RedFlagQuoteLen)
             key == Strip(Lower(exact))
         IN IF Len(exact) < RedFlagMinLen \/ key \in seen_quotes
            THEN ScanMatches(full_text, Tail(matches), violation_desc, seen_quotes, details)
            ELSE ScanMatches(full_text, Tail(matches), violation_desc,
                             seen_quotes \cup {key},
                             Append(details, ViolationDetail(violation_desc, Some(exact))))

RECURSIVE ScanPatterns(_, _, _, _, _)
ScanPatterns(full_text, full_text_lower, k, seen_quotes, details) ==
    IF k > Len(RedFlagPatterns) THEN details
    ELSE LET step == ScanMatches(full_text,
                                 PatternMatches(full_text_lower, RedFlagPatterns[k].instances),
                                 RedFlagPatterns[k].violation_desc, seen_quotes, details)
         IN ScanPatterns(full_text, full_text_lower, k + 1, step.seen_quotes, step.details)

scan_document_red_flags(doc) ==
    LET full_text == FullText(doc)
    IN ScanPatterns(full_text, Lower(full_text), 1, {}, <<>>)

-----------------------------------------------------------------------------
(* report.py: generate_analysis_result, lines 1515-1567 *)

\* lines 1516-1538: the red flags go into the document-wide result, or make one
MergeRedFlags(doc_results, red_flags) ==
    IF red_flags = <<>> THEN doc_results
    ELSE IF \E i \in 1..Len(doc_results) : doc_results[i].jurisdiction = None
    THEN LET i0 == CHOOSE i \in 1..Len(doc_results) :
                      /\ doc_results[i].jurisdiction = None
                      /\ \A j \in 1..(i - 1) : doc_results[j].jurisdiction # None
             merged_vd == deduplicate_violation_details(
                              doc_results[i0].violation_details \o red_flags)
         IN [i \in 1..Len(doc_results) |->
                IF doc_results[i].jurisdiction = None
                THEN ChecklistResult(None, doc_results[i].missing_required,
                                     ViolationsOf(merged_vd), merged_vd)
                ELSE doc_results[i]]
    ELSE Append(doc_results,
                ChecklistResult(None, <<>>, ViolationsOf(red_flags), red_flags))

\* lines 1541-1546: the quote keys of the document-wide violations
DocExactKeys(doc_results) ==
    UNION {{_normalize_exact_key(v.exact_text) :
                v \in {w \in Range(doc_results[i].violation_details) : Truthy(w.exact_text)}}
           : i \in 1..Len(doc_results)} \ {""}

\* lines 1548-1556: each document-wide result with its violations deduplicated
AggregateDocument(doc_results) ==
    [i \in 1..Len(doc_results) |->
        LET vd_deduped == deduplicate_violation_details(doc_results[i].violation_details)
        IN ChecklistResult(doc_results[i].jurisdiction, doc_results[i].missing_required,
                           ViolationsOf(vd_deduped), vd_deduped)]

\* a plausible slip: the per-disclaimer violations deduplicated but not
\* compared with the document-wide quote keys
UnfilteredDisclaimers(results, i, doc_exact_keys, out) ==
    [k \in 1..Len(results) |->
        ChecklistResult(results[k].jurisdiction, results[k].missing_required,
            ViolationsOf(deduplicate_violation_details(results[k].violation_details)),
            deduplicate_violation_details(results[k].violation_details))]

\* lines 1557-1567: each per-disclaimer result without the violations whose
\* quote key a document-wide or an earlier result has; missing_required is
\* passed on as it is
RECURSIVE AggregateDisclaimers(_, _, _, _)
AggregateDisclaimers(results, i, doc_exact_keys, out) ==
    IF i > Len(results) THEN out
    ELSE LET res == results[i]
             vd_deduped == deduplicate_violation_details(res.violation_details)
             NotDup(v) == ~(Truthy(v.exact_text)
                            /\ _normalize_exact_key(v.exact_text) \in doc_exact_keys)
             vd_no_dup == SelectSeq(vd_deduped, NotDup)
             new_keys == {_normalize_exact_key(v.exact_text) :
                             v \in {w \in Range(vd_no_dup) : Truthy(w.exact_text)}}
         IN AggregateDisclaimers(results, i + 1, doc_exact_keys \cup new_keys,
                Append(out, ChecklistResult(res.jurisdiction, res.missing_required,
                                            ViolationsOf(vd_no_dup), vd_no_dup)))

\* a plausible slip: the per-disclaimer results left out once the document-wide
\* results hold a quoted violation
AggregateWithoutDisclaimers(doc_results, disclaimer_results) ==
    AggregateDocument(doc_results)
    \o (IF DocExactKeys(doc_results) # {} THEN <<>>
        ELSE AggregateDisclaimers(disclaimer_results, 1, DocExactKeys(doc_results), <<>>))

\* lines 1540-1567
AggregateResults(doc_results, disclaimer_results) ==
    AggregateDocument(doc_results)
    \o AggregateDisclaimers(disclaimer_results, 1, DocExactKeys(doc_results), <<>>)

\* lines 1569-1573: all_missing_phrases
AllMissingPhrases(results) ==
    LET RECURSIVE Cat(_)
        Cat(i) == IF i > Len(results) THEN <<>>
                  ELSE results[i].missing_required \o Cat(i + 1)
    IN Cat(1)

\* a plausible slip: only the violations that quote the document are counted
AllViolationsQuoted(results) ==
    LET RECURSIVE Cat(_)
        Cat(i) == IF i > Len(results) THEN <<>>
                  ELSE SelectSeq(results[i].violation_details,
                                 LAMBDA v : Truthy(v.exact_text)) \o Cat(i + 1)
    IN [k \in 1..Len(Cat(1)) |-> Cat(1)[k].violation]

\* lines 1570-1580: all_violations, one per key over all results
AllViolations(results) ==
    LET Key(v) == IF Truthy(v.exact_text) THEN _normalize_exact_key(v.exact_text)
                  ELSE "v:" \o Take(v.violation, DescKeyLen)
        RECURSIVE Cat(_)
        Cat(i) == IF i > Len(results) THEN <<>>
                  ELSE results[i].violation_details \o Cat(i + 1)
        all == Cat(1)
        first == {k \in 1..Len(all) : \A j \in 1..(k - 1) : Key(all[j]) # Key(all[k])}
        RECURSIVE Pick(_)
        Pick(k) == IF k > Len(all) THEN <<>>
                   ELSE (IF k \in first THEN <<all[k].violation>> ELSE <<>>) \o Pick(k + 1)
    IN Pick(1)

-----------------------------------------------------------------------------
(* rules.py.  A missing phrase counts as critical when its `required` is   *)
(* set; the lists may be None, which is the empty list here as in the code *)

HighRiskTotal == 3
MediumRiskTotal == 1

\* lines 29-30: critical_missing + len(checklist_violations)
TotalViolations(missing_phrases, checklist_violations) ==
    Len(SelectSeq(missing_phrases, LAMBDA p : p.required)) + Len(checklist_violations)

\* classify_risk_level
classify_risk_level(missing_phrases, checklist_violations) ==
    IF TotalViolations(missing_phrases, checklist_violations) >= HighRiskTotal
       \/ checklist_violations # <<>>
    THEN "HIGH"
    ELSE IF TotalViolations(missing_phrases, checklist_violations) >= MediumRiskTotal
    THEN "MEDIUM"
    ELSE "LOW"

\* a plausible slip: a LOW risk approved without a look at the lists
approve_when_low(risk_level, missing_phrases, checklist_violations) ==
    risk_level = "LOW"

\* determine_approval_status
determine_approval_status(risk_level, missing_phrases, checklist_violations) ==
    IF risk_level = "LOW"
    THEN Len(missing_phrases) = 0 /\ Len(checklist_violations) = 0
    ELSE FALSE

-----------------------------------------------------------------------------
\* lines 519-530 and 545-553: the result of one disclaimer from the items the
\* classifier found non-compliant, in the order their calls completed
NonCompliantItem(item_text, missing_details, exact_highlight_text) ==
    [item_text |-> item_text, missing_details |-> missing_details,
     exact_highlight_text |-> exact_highlight_text]

PhraseLen == 200

DisclaimerResult(detected, items) ==
    LET Reason(it) == IF it.missing_details # "" THEN it.missing_details ELSE "Not compliant"
        Quote(it) == IF it.exact_highlight_text # "" THEN Some(it.exact_highlight_text) ELSE None
        missing_required == [k \in 1..Len(items) |->
            MissingPhrase(Take(items[k].item_text, PhraseLen), Some(Reason(items[k])),
                          Quote(items[k]))]
        violation_details_list == [k \in 1..Len(items) |->
            ViolationDetail(Reason(items[k]), Quote(items[k]))]
    IN ChecklistResult(detected.jurisdiction, missing_required,
                       ViolationsOf(violation_details_list), violation_details_list)

-----------------------------------------------------------------------------
(* annotate.py: what process_pdf_page_by_page does with one issue *)

CommentTextLen == 300
HighlightTextLen == 200
SearchTextLen == 100
PopupContentLen == 200
PopupTitleLen == 40
NoteTitleLen == 60
KeywordLen == 80
LongWordLen == 4
MaxViolationWords == 5
MissingKeywordMinLen == 10
DisclaimerKeyLen == 100
DisclaimerKeyMinLen == 30
DisclaimerShortKeyLen == 50
AnchorSentenceLen == 100
FootnoteRefLen == 100
CommentKeyTextLen == 80
CommentKeyHighlightLen == 60

\* color_palette as the color_hex of line 502
ColorPalette ==
    << "#ff3333", "#ff9900", "#ffcc00", "#33cc33", "#3399ff",
       "#9933ff", "#ff66cc", "#00cccc", "#cc9933", "#666666" >>

Digits == {"0", "1", "2", "3", "4", "5", "6", "7", "8", "9"}

\* re.findall(r'\d+%', text)[0], None when nothing matches
FirstPercent(text) ==
    LET ends == {p \in 2..Len(text) : Char(text, p) = "%" /\ Char(text, p - 1) \in Digits}
    IN IF ends = {} THEN None
       ELSE LET e == CHOOSE p \in ends : \A q \in ends : p <= q
                s == CHOOSE i \in 1..(e - 1) :
                        /\ \A j \in i..(e - 1) : Char(text, j) \in Digits
                        /\ i = 1 \/ Char(text, i - 1) \notin Digits
            IN Some(SubSeq(text, s, e))

\* s.split()
Words(s) ==
    LET IsWs(i) == Char(s, i) \in Whitespace
        starts == SortedSeq({i \in 1..Len(s) : ~IsWs(i) /\ (i = 1 \/ IsWs(i - 1))})
        EndOf(i) == CHOOSE e \in i..Len(s) :
                        /\ \A j \in i..e : ~IsWs(j)
                        /\ e = Len(s) \/ IsWs(e + 1)
    IN [k \in 1..Len(starts) |-> SubSeq(s, starts[k], EndOf(starts[k]))]

\* sorted(seq, key=Key): Python's sort is stable
SortByKey(seq, Key(_)) ==
    LET n == Len(seq)
        Before(i, j) == \/ Key(seq[i]) < Key(seq[j])
                        \/ Key(seq[i]) = Key(seq[j]) /\ i < j
        At(k) == CHOOSE i \in 1..n : Cardinality({j \in 1..n : Before(j, i)}) = k - 1
    IN [k \in 1..n |-> seq[At(k)]]

\* an entry of issues_to_annotate; severity is "HIGH" for every entry
Issue(type, text, reason, exact_text, priority) ==
    [type |-> type, text |-> text, reason |-> reason, exact_text |-> exact_text,
     priority |-> priority]

\* lines 466-497 and 621-651
IssuesToAnnotate(cr) ==
    LET vd == cr.violation_details
        from_vd == [i \in 1..Len(vd) |->
            Issue("violation", vd[i].violation, vd[i].violation, vd[i].exact_text, 1)]
        from_violations ==
            IF vd = <<>>
            THEN [i \in 1..Len(cr.violations) |->
                    Issue("violation", cr.violations[i], cr.violations[i], None, 1)]
            ELSE <<>>
        from_missing == [i \in 1..Len(cr.missing_required) |->
            LET missing == cr.missing_required[i]
            IN Issue("missing_required", missing.phrase,
                     OrElse(missing.reason, Some(missing.phrase))[1],
                     missing.exact_highlight_text, 2)]
        Priority(x) == x.priority
    IN SortByKey(from_vd \o from_violations \o from_missing, Priority)

\* issue["type"].replace("_", " ").title()
TypeTitle(type) ==
    IF type = "violation" THEN "Violation" ELSE "Missing Required"

KeywordWords == << "guaranteed", "guarantee", "promise", "100%", "gain", "return", "profit" >>

\* lines 509-528: the keyword of a document-wide issue without a quote
DocumentKeyword(issue) ==
    IF Truthy(issue.exact_text) THEN None
    ELSE IF issue.type = "violation"
    THEN LET low == Lower(issue.text)
             hits == {k \in 1..Len(KeywordWords) : Contains(low, KeywordWords[k])}
             word == IF hits = {} THEN None
                     ELSE Some(KeywordWords[CHOOSE k \in hits : \A h \in hits : k <= h])
         IN OrElse(FirstPercent(issue.text), word)
    ELSE LET missing_text == Lower(issue.text)
         IN IF Contains(missing_text, "risk") THEN Some("risk")
            ELSE IF Contains(missing_text, "performance") THEN Some("past performance")
            ELSE IF Contains(missing_text, "investor") THEN Some("investor")
            ELSE None

\* lines 661-671: the keyword of a per-disclaimer issue without a quote
DisclaimerKeyword(issue, detected_text) ==
    IF Truthy(issue.exact_text) THEN None
    ELSE IF issue.type = "violation"
    THEN LET IsLong(w) == Len(w) > LongWordLen
             violation_words == Take(SelectSeq(Words(issue.text), IsLong), MaxViolationWords)
             sentences == Split(detected_text, ".")
             hits == {k \in 1..Len(sentences) :
                         \E i \in 1..Len(violation_words) :
                             Contains(Lower(sentences[k]), Lower(violation_words[i]))}
         IN IF hits = {} THEN None
            ELSE Some(Take(Strip(sentences[CHOOSE k \in hits : \A h \in hits : k <= h]),
                           KeywordLen))
    ELSE IF Len(issue.text) > MissingKeywordMinLen THEN Some(Take(issue.text, KeywordLen))
    ELSE None

\* lines 530-532 and 674-676
LocateIssue(doc, exact, keyword_fallback) ==
    LET OrKeyword(all_instances) ==
            IF all_instances = <<>> /\ Truthy(keyword_fallback)
            THEN find_text_in_pdf(doc, keyword_fallback[1])
            ELSE all_instances
    IN OrKeyword(find_text_in_pdf_with_fallbacks(doc, exact, keyword_fallback))

\* add_highlight_with_popup: the highlight and its sticky note
add_highlight_with_popup(page_num, rect, message, stroke_color, popup_title) ==
    << [kind |-> "highlight", page_num |-> page_num, rect |-> rect,
        content |-> message, stroke |-> stroke_color],
       [kind |-> "note", page_num |-> page_num, rect |-> Rect(rect.pos, 0),
        content |-> Take(message, PopupContentLen),
        stroke |-> Take(IF popup_title # "" THEN popup_title
                        ELSE IF message # "" THEN message ELSE "Note", NoteTitleLen)] >>

\* lines 499-503, 533-572 and 677-715: the comments and highlights of one
\* issue located at all_instances.  st is [comments, annots, color_index,
\* issue_log]; seq numbers the comments in the order appended.
EmitInstances(st, doc, issue, keyword_fallback, jurisdiction, unlocated_page, finding, all_instances) ==
    LET color_hex == ColorPalette[(st.color_index % Len(ColorPalette)) + 1]
        exact == issue.exact_text
        nav == Take(OrElse(OrElse(exact, keyword_fallback), Some(""))[1], SearchTextLen)
        base == Len(st.comments)
        Boxed(k) == Take(get_textbox(doc[all_instances[k].page_num + 1],
                                     all_instances[k].rect), HighlightTextLen)
        Located(k) ==
            [page |-> all_instances[k].page_num + 1,
             text |-> Take(issue.reason, CommentTextLen),
             type |-> TypeTitle(issue.type),
             color |-> color_hex,
             highlighted_text |-> IF Boxed(k) # "" THEN Boxed(k)
                                  ELSE Take(issue.text, HighlightTextLen),
             jurisdiction |-> Some(jurisdiction),
             search_text |-> IF nav # "" THEN Some(nav) ELSE None,
             seq |-> base + k]
        Unlocated ==
            [page |-> unlocated_page,
             text |-> Take(issue.reason, CommentTextLen),
             type |-> TypeTitle(issue.type),
             color |-> color_hex,
             highlighted_text |-> Take(issue.text, HighlightTextLen),
             jurisdiction |-> Some(jurisdiction),
             search_text |-> None,
             seq |-> base + 1]
        Painted(k) ==
            add_highlight_with_popup(all_instances[k].page_num, all_instances[k].rect,
                                     Take(issue.reason, PopupContentLen), color_hex,
                                     Take(issue.type, PopupTitleLen))
        new_comments == IF all_instances # <<>>
                        THEN [k \in 1..Len(all_instances) |-> Located(k)]
                        ELSE <<Unlocated>>
        new_annots == [k \in 1..(2 * Len(all_instances)) |-> Painted((k + 1) \div 2)[2 - (k % 2)]]
    IN [comments |-> st.comments \o new_comments,
        annots |-> st.annots \o new_annots,
        color_index |-> st.color_index + 1,
        issue_log |-> Append(st.issue_log,
            [finding |-> finding, reason |-> issue.reason, regions |-> all_instances,
             unlocated_page |-> unlocated_page,
             first_seq |-> base + 1, last_seq |-> base + Len(new_comments),
             first_annot |-> Len(st.annots) + 1,
             last_annot |-> Len(st.annots) + Len(new_annots)])]

\* lines 499-572 and 653-715 for one issue
EmitIssue(st, doc, issue, keyword_fallback, jurisdiction, unlocated_page, finding) ==
    EmitInstances(st, doc, issue, keyword_fallback, jurisdiction, unlocated_page, finding,
                  LocateIssue(doc, issue.exact_text, keyword_fallback))

\* lines 499-572: the issues of one document-wide result, from the k-th on
RECURSIVE EmitDocumentIssues(_, _, _, _, _)
EmitDocumentIssues(st, doc, cr_index, issues, k) ==
    IF k > Len(issues) THEN st
    ELSE EmitDocumentIssues(
            EmitIssue(st, doc, issues[k], DocumentKeyword(issues[k]),
                      "Document-wide", 1, <<cr_index, k>>),
            doc, cr_index, issues, k + 1)

\* lines 464-572: every result whose jurisdiction is None
RECURSIVE AnnotateDocumentResults(_, _, _, _)
AnnotateDocumentResults(st, doc, results, i) ==
    IF i > Len(results) THEN st
    ELSE AnnotateDocumentResults(
            IF results[i].jurisdiction = None
            THEN EmitDocumentIssues(st, doc, i, IssuesToAnnotate(results[i]), 1)
            ELSE st,
            doc, results, i + 1)

JurisdictionPhrases ==
    << "for residents of the united arab emirates",
       "for residents of the uae",
       "for residents of the state of kuwait",
       "for residents of the state of qatar",
       "for residents of the sultanate of oman",
       "for residents of the kingdom of saudi arabia",
       "for residents of the dubai international financial centre",
       "for residents of the difc" >>

\* find_disclaimer_section for one page; a page is one text block
DisclaimerHitsOnPage(page_text, detected_text) ==
    LET page_text_lower == Lower(page_text)
        phrases == {k \in 1..Len(JurisdictionPhrases) :
                        Contains(page_text_lower, JurisdictionPhrases[k])}
        blocks == [k \in 1..Cardinality(phrases) |-> Rect(1, Len(page_text))]
        Heading(keyword) == search_for(page_text, keyword) \o search_for(page_text, Lower(keyword))
        search_key == Strip(Take(detected_text, DisclaimerKeyLen))
        by_key == IF detected_text # "" /\ Len(search_key) > DisclaimerKeyMinLen
                  THEN IF search_for(page_text, search_key) # <<>>
                       THEN search_for(page_text, search_key)
                       ELSE search_for(page_text, Take(search_key, DisclaimerShortKeyLen))
                  ELSE <<>>
    IN blocks \o Heading("disclaimers") \o Heading("disclaimer") \o by_key

RECURSIVE DisclaimerPages(_, _, _)
DisclaimerPages(doc, detected_text, page_num) ==
    IF page_num >= Len(doc) THEN <<>>
    ELSE LET rects == DisclaimerHitsOnPage(doc[page_num + 1], detected_text)
         IN [k \in 1..Len(rects) |-> [page_num |-> page_num, rect |-> rects[k]]]
            \o DisclaimerPages(doc, detected_text, page_num + 1)

find_disclaimer_section(doc, detected_text) == DisclaimerPages(doc, detected_text, 0)

\* lines 580-592: disclaimer_locations, with the key-sentence search
RECURSIVE SentenceLocations(_, _)
SentenceLocations(doc, sentences) ==
    IF sentences = <<>> THEN <<>>
    ELSE LET sentence == Strip(Head(sentences))
             locations == IF Len(sentence) > DisclaimerKeyMinLen
                          THEN find_text_in_pdf(doc, Take(sentence, AnchorSentenceLen))
                          ELSE <<>>
         IN IF locations # <<>> THEN locations
            ELSE SentenceLocations(doc, Tail(sentences))

DisclaimerLocations(doc, detected_text) ==
    LET OrSentences(found) ==
            IF found # <<>> THEN found
            ELSE SentenceLocations(doc, Take(Split(detected_text, "."), MaxSentences))
    IN OrSentences(find_disclaimer_section(doc, detected_text))

\* lines 704-708: the page of a comment without a region
AnchorPage(disclaimer_locations) ==
    IF disclaimer_locations # <<>> THEN disclaimer_locations[1].page_num + 1 ELSE 1

\* lines 594-606: the first result of the disclaimer's jurisdiction, 0 for none
SelectChecklistResult(results, detected) ==
    LET Matches(cr) == IF detected.jurisdiction # None
                       THEN cr.jurisdiction = detected.jurisdiction
                       ELSE cr.jurisdiction = None
        hits == {i \in 1..Len(results) : Matches(results[i])}
    IN IF hits = {} THEN 0 ELSE CHOOSE i \in hits : \A h \in hits : i <= h

\* lines 653-715: the issues of the result selected for one disclaimer
RECURSIVE EmitDisclaimerIssues(_, _, _, _, _, _, _)
EmitDisclaimerIssues(st, doc, detected, unlocated_page, cr_index, issues, k) ==
    IF k > Len(issues) THEN st
    ELSE EmitDisclaimerIssues(
            EmitIssue(st, doc, issues[k], DisclaimerKeyword(issues[k], detected.text),
                      IF detected.jurisdiction # None THEN detected.jurisdiction[1]
                      ELSE "General",
                      unlocated_page, <<cr_index, k>>),
            doc, detected, unlocated_page, cr_index, issues, k + 1)

\* lines 575-715 for one detected disclaimer
AnnotateDisclaimerResult(st, doc, results, detected) ==
    LET cr_index == SelectChecklistResult(results, detected)
        has_jurisdiction_issues ==
            /\ cr_index # 0
            /\ \/ Len(results[cr_index].missing_required) > 0
               \/ Len(results[cr_index].violations) > 0
    IN IF detected.text = "" \/ ~has_jurisdiction_issues THEN st
       ELSE EmitDisclaimerIssues(st, doc, detected,
                                 AnchorPage(DisclaimerLocations(doc, detected.text)),
                                 cr_index, IssuesToAnnotate(results[cr_index]), 1)

-----------------------------------------------------------------------------
(* annotate.py: formatting and footnote issues, the comment list, the save *)

RedTextStroke == "#ff4c4c"
FootnoteStroke == "#6d42c1"
FootnoteColor == "#6f42c1"
HighlightColor == "#0dcaf0"
RedTextColor == "#dc3545"

\* lines 718-731: a highlight for every red-text issue that has a box on a page
RECURSIVE HighlightRedText(_, _, _)
HighlightRedText(painted, doc, issues) ==
    IF issues = <<>> THEN painted
    ELSE LET fi == Head(issues)
             page_idx == fi.page - 1
             paint == /\ fi.issue_type = "unusual_color"
                      /\ fi.bbox # None
                      /\ 0 <= page_idx /\ page_idx < Len(doc)
                      /\ fi.bbox[1].len > 0
         IN HighlightRedText(
                IF paint
                THEN painted \o add_highlight_with_popup(page_idx, fi.bbox[1],
                        "Red text - possible edit remnant. Please remove or revise before finalising.",
                        RedTextStroke, "Red text (edit remnant)")
                ELSE painted,
                doc, Tail(issues))

\* footnotes_locations.get(reference)
FootnoteLocation(locations, reference) ==
    LET hits == {k \in 1..Len(locations) : locations[k].reference = reference}
    IN IF hits = {} THEN None ELSE Some(locations[CHOOSE k \in hits : \A h \in hits : k <= h])

\* lines 746-762: the highlight of one footnote issue
FootnoteHighlight(doc, fi, locations) ==
    LET loc == IF Truthy(fi.reference) THEN FootnoteLocation(locations, fi.reference[1])
               ELSE None
        by_location == fi.bbox = None /\ loc # None
        rect == IF fi.bbox # None THEN fi.bbox ELSE IF loc # None THEN Some(loc[1].bbox) ELSE None
        page_idx == IF by_location THEN loc[1].page - 1 ELSE fi.page - 1
    IN IF rect # None /\ 0 <= page_idx /\ page_idx < Len(doc)
       THEN add_highlight_with_popup(page_idx, rect[1], Take(fi.message, PopupContentLen),
                                     FootnoteStroke, "Footnote")
       ELSE <<>>

\* lines 735-764: st is [comments, annots, footnote_log]
RECURSIVE AnnotateFootnoteIssues(_, _, _, _)
AnnotateFootnoteIssues(st, doc, issues, locations) ==
    IF issues = <<>> THEN st
    ELSE LET fi == Head(issues)
             comment ==
                [page |-> fi.page, text |-> fi.message, type |-> "Footnote",
                 color |-> FootnoteColor,
                 highlighted_text |-> Take(OrElse(fi.reference, Some(""))[1], FootnoteRefLen),
                 jurisdiction |-> None, search_text |-> fi.reference,
                 seq |-> Len(st.comments) + 1]
         IN AnnotateFootnoteIssues(
                [comments |-> Append(st.comments, comment),
                 annots |-> st.annots \o FootnoteHighlight(doc, fi, locations),
                 footnote_log |-> Append(st.footnote_log,
                    [seq |-> Len(st.comments) + 1,
                     first_annot |-> Len(st.annots) + 1,
                     last_annot |-> Len(st.annots)
                                    + Len(FootnoteHighlight(doc, fi, locations))])],
                doc, Tail(issues), locations)

\* lines 766-776
RECURSIVE CommentFormattingIssues(_, _)
CommentFormattingIssues(cs, issues) ==
    IF issues = <<>> THEN cs
    ELSE LET fi == Head(issues)
             comment ==
                [page |-> fi.page,
                 text |-> fi.message \o (IF Truthy(fi.color_hex)
                                         THEN " (" \o fi.color_hex[1] \o ")" ELSE ""),
                 type |-> IF fi.issue_type = "unusual_color" THEN "Red text"
                          ELSE "Existing highlight",
                 color |-> IF fi.issue_type = "existing_highlight" THEN HighlightColor
                           ELSE RedTextColor,
                 highlighted_text |-> Take(OrElse(fi.text, Some(""))[1], HighlightTextLen),
                 jurisdiction |-> None,
                 search_text |-> IF Truthy(fi.text) THEN Some(Take(fi.text[1], SearchTextLen))
                                 ELSE None,
                 seq |-> Len(cs) + 1]
         IN CommentFormattingIssues(Append(cs, comment), Tail(issues))

\* a plausible slip: the page left out of the key
CommentKeyWithoutPage(c) ==
    << Take(c.text, CommentKeyTextLen),
       Take(IF c.highlighted_text # "" THEN c.highlighted_text
            ELSE OrElse(c.search_text, Some(""))[1], CommentKeyHighlightLen) >>

\* lines 783-787
CommentKey(c) ==
    << Take(c.text, CommentKeyTextLen),
       Take(IF c.highlighted_text # "" THEN c.highlighted_text
            ELSE OrElse(c.search_text, Some(""))[1], CommentKeyHighlightLen),
       c.page >>

\* a plausible slip: a later comment replaces the one kept for its key
DedupCommentsKeepLast(cs) ==
    LET kept == {i \in 1..Len(cs) :
                    \A j \in (i + 1)..Len(cs) : CommentKey(cs[j]) # CommentKey(cs[i])}
        idx == SortedSeq(kept)
    IN [k \in 1..Len(idx) |-> cs[idx[k]]]

\* lines 779-792
DedupComments(cs) ==
    LET kept == {i \in 1..Len(cs) : \A j \in 1..(i - 1) : CommentKey(cs[j]) # CommentKey(cs[i])}
        idx == SortedSeq(kept)
    IN [k \in 1..Len(idx) |-> cs[idx[k]]]

\* a plausible slip: the comments left in the order they were appended
LeaveUnsorted(cs) == cs

\* line 795: comments.sort(key=lambda c: c.get("page", 0))
SortCommentsByPage(cs) ==
    LET Page(c) == c.page
    IN SortByKey(cs, Page)

\* lines 445-453
has_issues ==
    \/ Len(missing_required_phrases) > 0
    \/ \E i \in 1..Len(checklist_results) :
          \/ Len(checklist_results[i].violation_details) > 0
          \/ Len(checklist_results[i].violations) > 0
          \/ Len(checklist_results[i].missing_required) > 0
    \/ Len(footnote_issues) > 0
    \/ Len(formatting_issues) > 0

\* annotate_pdf, lines 379-394: the summary note of the older annotator
SummaryAnnotation(doc) ==
    << [kind |-> "note", page_num |-> 0, rect |-> Rect(1, 0),
        content |-> "ANALYSIS SUMMARY", stroke |-> "#0000ff"] >>

\* lines 456-461: the no-issue path saves the document as it was opened
NoIssueAnnotations(doc) == <<>>

\* the bytes a save writes: the pages and the annotations on them
PdfBytes(doc, painted) == [pages |-> doc, annots |-> painted]

\* what the degraded return would be: the upload and an empty comment list
ReturnOriginal(pdf_bytes, error) ==
    [raised |-> None, value |-> Some([pdf |-> pdf_bytes, comments |-> <<>>])]

\* lines 459 and 802: a save outside any try threw; nothing catches it
SaveRaised(pdf_bytes, error) == [raised |-> Some(error), value |-> None]

\* analyze.py lines 96-99
StatusOf(error) == IF error = "ValueError" THEN 400 ELSE 500

-----------------------------------------------------------------------------
(* The documents and texts the checks draw their inputs from *)

QuoteReturn == "We guarantee a 100% return on your investment."
QuoteRisk == "The value of investments may fall as well as rise and investors may not get back the amount invested originally."
QuotePast == "Past performance is not indicative of future results"

\* three pages; QuoteReturn is on pages 1 and 3, "guaranteed return" twice on page 2
DocFund ==
    << "Global Growth Fund. " \o QuoteReturn \o " Invest now.",
       "Our guaranteed return beats the market. Enjoy a guaranteed return every year.",
       "Disclaimer. For residents of the UAE. " \o QuotePast \o ". " \o QuoteReturn >>

\* two pages, nothing promised; the disclaimer is on page 2
DocClean ==
    << "Quarterly market commentary for professional clients only.",
       "Disclaimer: capital is at risk. " \o QuoteRisk >>

\* one page, no disclaimer heading
DocNote ==
    << "this note mentions a guaranteed return of 12% for early investors" >>

Docs == {DocFund, DocClean, DocNote}

\* quotes as a classifier gives them: verbatim, re-cased, too short, padded,
\* drifting from the document after 80, 40 and 20 characters, two sentences,
\* a sentence of the document after a heading that is not in it
LocateQuotes ==
    { None,
      Some(QuoteReturn),
      Some("guaranteed return"),
      Some("Guaranteed Return"),
      Some("We"),
      Some("  of  "),
      Some(Take(QuoteRisk, 84) \o " in full"),
      Some(Take(QuoteRisk, 45) \o " or rise sharply in all market conditions"),
      Some(Take(QuoteRisk, 24) \o " can go down"),
      Some("Important notice. " \o QuotePast),
      Some("Warning. " \o Take(QuoteRisk, 75) \o " until maturity"),
      Some("no such text anywhere") }

LocateKeywords == { None, Some("risk"), Some("5%"), Some("12%"), Some("of"), Some("x") }

-----------------------------------------------------------------------------
(* SpecLocate: the locator applied to a document and a quote *)

IdleLocate ==
    /\ loc_doc = <<>> /\ loc_exact = None /\ loc_keyword = None
    /\ loc_call = "idle" /\ loc_query = None /\ loc_results = <<>>
    /\ loc_searched = <<>>

IdleDedup == vd_pc = "idle" /\ vd_input = <<>> /\ vd_output = <<>>

\* process_pdf_page_by_page has neither returned nor raised
NotReturned == [raised |-> None, value |-> None]

IdlePipeline ==
    /\ pc = "idle" /\ pdf_doc = <<>> /\ all_detected = <<>> /\ gemini_api_key = FALSE
    /\ red_flag_details = <<>> /\ document_checklist_results = <<>>
    /\ disclaimer_checklist_results = <<>>
    /\ checklist_results = <<>> /\ missing_required_phrases = <<>> /\ is_approved = None
    /\ footnote_issues = <<>> /\ formatting_issues = <<>> /\ footnotes_locations = <<>>
    /\ comments = <<>> /\ color_index = 0 /\ annots = <<>> /\ det_index = 0
    /\ issue_log = <<>> /\ footnote_log = <<>>
    /\ save_log = <<>> /\ returned = NotReturned /\ response = None
    /\ call_log = <<>> /\ chunks_sent = 0

IdleFootnotes ==
    /\ fn_pc = "idle" /\ fn_doc = <<>> /\ fn_fail = 0
    /\ footnotes = <<>> /\ footnote_locations = <<>>
    /\ fn_issues = <<>> /\ unusual_color_issues = <<>> /\ fn_continuations = <<>>
    /\ fn_query = <<>> /\ candidate_bbox = <<>>

IdleWrites ==
    /\ w_pc = "idle" /\ w_plan = <<>> /\ w_done = <<>>
    /\ w_annots = <<>> /\ w_comments = <<>> /\ w_fault = None

IdleOrder ==
    /\ o_pc = "idle" /\ o_doc = <<>> /\ o_detected = <<>> /\ o_items = <<>>
    /\ o_chunks = <<>> /\ o_order = <<>> /\ o_gathered = <<>> /\ o_findings = <<>>
    /\ o_outputs = <<>>

IdleRules ==
    /\ rule_pc = "idle" /\ rule_missing = <<>> /\ rule_violations = <<>>
    /\ rule_risk = None /\ rule_approved = None

IdleExtra == IdleFootnotes /\ IdleWrites /\ IdleOrder /\ IdleRules

InitLocate ==
    /\ loc_doc \in Docs
    /\ loc_exact \in LocateQuotes
    /\ loc_keyword \in LocateKeywords
    /\ loc_call = "none"
    /\ loc_query = None
    /\ loc_results = <<>>
    /\ loc_searched = <<>>
    /\ IdleDedup
    /\ IdlePipeline
    /\ IdleExtra

\* find_text_in_pdf(doc, exact_text) for a present quote
CallFindText ==
    /\ loc_call = "none"
    /\ loc_exact # None
    /\ loc_call' = "find_text_in_pdf"
    /\ loc_query' = loc_exact
    /\ loc_results' = find_text_in_pdf(loc_doc, loc_exact[1])
    /\ loc_searched' = <<loc_exact[1]>>
    /\ UNCHANGED <<loc_doc, loc_exact, loc_keyword, dvars, pvars, xvars>>

\* find_text_in_pdf_with_fallbacks(doc, exact_text, keyword_fallback)
CallFindWithFallbacks ==
    /\ loc_call = "none"
    /\ LET found == fallback_search(loc_doc, loc_exact, loc_keyword)
       IN /\ loc_query' = found.query
          /\ loc_results' = find_text_in_pdf_with_fallbacks(loc_doc, loc_exact, loc_keyword)
    /\ loc_searched' = SearchesMade(loc_doc, loc_exact, loc_keyword)
    /\ loc_call' = "find_text_in_pdf_with_fallbacks"
    /\ UNCHANGED <<loc_doc, loc_exact, loc_keyword, dvars, pvars, xvars>>

NextLocate == CallFindText \/ CallFindWithFallbacks

SpecLocate == InitLocate /\ [][NextLocate]_vars

-----------------------------------------------------------------------------
(* SpecDedup: deduplicate_violation_details applied to a list of findings *)

MaxVdLen == 3

Desc80 == "Marketing material promises a specific return to every investor without warning"

DedupFindings ==
    { ViolationDetail("Guaranteed return claim", Some("guaranteed return")),
      ViolationDetail("Promise of profit", Some("Guaranteed  Return ")),
      ViolationDetail("Guaranteed return claim", None),
      ViolationDetail("guaranteed  return claim", None),
      ViolationDetail("Missing risk warning", Some("")),
      ViolationDetail(Desc80 \o " A", None),
      ViolationDetail(Desc80 \o " B", None) }

SeqsUpTo(S, n) == UNION {[1..k -> S] : k \in 0..n}

InitDedup ==
    /\ vd_pc = "call"
    /\ vd_input \in SeqsUpTo(DedupFindings, MaxVdLen)
    /\ vd_output = <<>>
    /\ IdleLocate
    /\ IdlePipeline
    /\ IdleExtra

Deduplicate ==
    /\ vd_pc = "call"
    /\ vd_pc' = "return"
    /\ vd_output' = deduplicate_violation_details(vd_input)
    /\ UNCHANGED <<vd_input, lvars, pvars, uvars, xvars>>

NextDedup == Deduplicate

SpecDedup == InitDedup /\ [][NextDedup]_vars

-----------------------------------------------------------------------------
(* Spec: one request to analyze_pdf, from the upload to the response *)

\* what detect_jurisdictions_and_disclaimers can hand over for a document:
\* nothing, the last page as a UAE or as a general disclaimer, the same
\* disclaimer twice
DetectedLists(doc) ==
    LET body == doc[Len(doc)]
    IN { <<>>,
         <<DetectedDisclaimer(body, Some("UAE"))>>,
         <<DetectedDisclaimer(body, None)>>,
         <<DetectedDisclaimer(body, Some("UAE")), DetectedDisclaimer(body, Some("UAE"))>> }

\* pages_per_chunk of check_entire_document_compliance_chunked
PagesPerChunk == 12

\* what check_entire_document_compliance_chunked can return with an API key
ChunkedOutcomes ==
    { <<ChecklistResult(None, <<>>, <<>>, <<>>)>>,
      <<ChecklistResult(None,
            <<MissingPhrase("Past performance warning", Some("Item 4"), None)>>,
            <<>>, <<>>)>>,
      <<ChecklistResult(None,
            <<MissingPhrase("Risk warning for investors", Some(""), None)>>,
            <<"Misleading statement about capital">>,
            <<ViolationDetail("Misleading statement about capital",
                              Some("capital is at risk"))>>)>>,
      <<ChecklistResult(None, <<>>,
            <<"Implied promise of profit", "Implied promise of profit">>,
            <<ViolationDetail("Implied promise of profit", None),
              ViolationDetail("Implied promise of profit", None)>>)>> }

ItemGuarantee ==
    NonCompliantItem("Must not guarantee returns or profits",
                     "Disclaimer guarantees a return", "guaranteed return")
ItemPast ==
    NonCompliantItem("Must state that past performance is not a guide to the future", "", "")
ItemRisk ==
    NonCompliantItem("Must warn that capital is at risk",
                     "Risk warning is incomplete", "capital is at risk")

\* the non-compliant items of one disclaimer, in completion order
ItemOutcomes ==
    { <<>>, <<ItemGuarantee>>, <<ItemRisk>>, <<ItemPast, ItemGuarantee>> }

\* what the footnote and formatting checks can find
ExtraIssueOptions ==
    { [footnote_issues |-> <<>>, formatting_issues |-> <<>>, footnotes_locations |-> <<>>],
      [footnote_issues |->
          <<FootnoteIssue(1, "Footnote reference '7' has no matching footnote in this document.",
                          Some("7"), Some(Rect(5, 1)))>>,
       formatting_issues |-> <<>>,
       footnotes_locations |-> <<>>],
      [footnote_issues |->
          <<FootnoteIssue(1, "Footnote 3 does not name its source.", Some("3"), None)>>,
       formatting_issues |->
          <<FormattingIssue(2, "unusual_color", "Red text (possible edit remnant).",
                            Some("DRAFT"), Some("#ff0000"), Some(Rect(3, 5))),
            FormattingIssue(1, "existing_highlight", "Existing highlight found.",
                            None, None, None)>>,
       footnotes_locations |-> <<[reference |-> "3", page |-> 2, bbox |-> Rect(1, 4)]>>] }

\* what a failing save can raise
SaveErrors == {"ValueError", "RuntimeError"}

Init ==
    /\ pc = "scan"
    /\ pdf_doc \in Docs
    /\ all_detected \in DetectedLists(pdf_doc)
    /\ gemini_api_key \in BOOLEAN
    /\ red_flag_details = <<>> /\ document_checklist_results = <<>>
    /\ disclaimer_checklist_results = <<>>
    /\ checklist_results = <<>> /\ missing_required_phrases = <<>> /\ is_approved = None
    /\ footnote_issues = <<>> /\ formatting_issues = <<>> /\ footnotes_locations = <<>>
    /\ comments = <<>> /\ color_index = 0 /\ annots = <<>> /\ det_index = 0
    /\ issue_log = <<>> /\ footnote_log = <<>>
    /\ save_log = <<>> /\ returned = NotReturned /\ response = None
    /\ call_log = <<>> /\ chunks_sent = 0
    /\ IdleLocate
    /\ IdleDedup
    /\ IdleExtra

\* report.py lines 1502-1504
ScanRedFlags ==
    /\ pc = "scan"
    /\ pc' = "chunked"
    /\ red_flag_details' = deduplicate_violation_details(scan_document_red_flags(pdf_doc))
    /\ call_log' = Append(call_log, "scan_document_red_flags")
    /\ UNCHANGED <<ivars, document_checklist_results, disclaimer_checklist_results,
                   resvars, avars, svars, chunks_sent, dvars, lvars, xvars>>

\* a plausible slip: the chunked pass run whatever the scan found
RunsChunkedPassAlways(pdf_bytes, details) == pdf_bytes # <<>>

\* report.py line 1506: `if pdf_bytes and not red_flag_details`
RunsChunkedPass(pdf_bytes, details) == pdf_bytes # <<>> /\ details = <<>>

\* report.py lines 767-776: one chunk for every pages_per_chunk pages
ChunkCount(doc) == (Len(doc) + PagesPerChunk - 1) \div PagesPerChunk

\* report.py lines 1506-1511; the pass returns at once without an API key
\* (lines 757-758) and submits every chunk otherwise (line 833)
CheckDocumentChunked ==
    /\ pc = "chunked"
    /\ pc' = "multi_call"
    /\ IF RunsChunkedPass(pdf_doc, red_flag_details)
       THEN /\ call_log' = Append(call_log, "check_entire_document_compliance_chunked")
            /\ IF gemini_api_key
               THEN /\ chunks_sent' = ChunkCount(pdf_doc)
                    /\ document_checklist_results' \in ChunkedOutcomes
               ELSE /\ chunks_sent' = 0
                    /\ document_checklist_results' = <<>>
       ELSE /\ document_checklist_results' = <<>>
            /\ UNCHANGED hvars
    /\ UNCHANGED <<ivars, red_flag_details, disclaimer_checklist_results,
                   resvars, avars, svars, dvars, lvars, xvars>>

\* report.py line 1513: check_all_disclaimers_compliance_multi_call
CheckDisclaimers ==
    /\ pc = "multi_call"
    /\ pc' = "aggregate"
    /\ IF ~gemini_api_key \/ all_detected = <<>>
       THEN disclaimer_checklist_results' = <<>>
       ELSE \E outcomes \in [1..Len(all_detected) -> ItemOutcomes] :
               disclaimer_checklist_results' =
                   [i \in 1..Len(all_detected) |->
                       DisclaimerResult(all_detected[i], outcomes[i])]
    /\ call_log' = Append(call_log, "check_all_disclaimers_compliance_multi_call")
    /\ UNCHANGED <<ivars, red_flag_details, document_checklist_results,
                   resvars, avars, svars, chunks_sent, dvars, lvars, xvars>>

\* report.py lines 1515-1582
Aggregate ==
    /\ pc = "aggregate"
    /\ pc' = "formatting_checks"
    /\ document_checklist_results' = MergeRedFlags(document_checklist_results, red_flag_details)
    /\ checklist_results' =
          AggregateResults(document_checklist_results', disclaimer_checklist_results)
    /\ missing_required_phrases' = AllMissingPhrases(checklist_results')
    /\ \E required \in [1..Len(missing_required_phrases') -> BOOLEAN] :
          is_approved' = Some(determine_approval_status(
                classify_risk_level(
                    [k \in 1..Len(missing_required_phrases') |-> [required |-> required[k]]],
                    AllViolations(checklist_results')),
                missing_required_phrases', AllViolations(checklist_results')))
    /\ UNCHANGED <<ivars, red_flag_details, disclaimer_checklist_results,
                   footnote_issues, formatting_issues, footnotes_locations,
                   avars, svars, hvars, dvars, lvars, xvars>>

\* report.py lines 1600-1663
FootnoteAndFormattingChecks ==
    /\ pc = "formatting_checks"
    /\ pc' = "annotate"
    /\ \E found \in ExtraIssueOptions :
          /\ footnote_issues' = found.footnote_issues
          /\ formatting_issues' = found.formatting_issues
          /\ footnotes_locations' = found.footnotes_locations
    /\ call_log' = Append(call_log, "run_footnote_and_formatting_checks")
    /\ UNCHANGED <<ivars, rvars, checklist_results, missing_required_phrases, is_approved,
                   avars, svars, chunks_sent, dvars, lvars, xvars>>

\* annotate.py lines 456-461: no issue, one plain save
ReturnWithoutIssues ==
    /\ pc = "annotate"
    /\ ~has_issues
    /\ annots' = NoIssueAnnotations(pdf_doc)
    /\ \E ok \in BOOLEAN, error \in SaveErrors :
          /\ save_log' = Append(save_log, [incremental |-> FALSE, ok |-> ok])
          /\ returned' = IF ok
                         THEN [raised |-> None,
                               value |-> Some([pdf |-> PdfBytes(pdf_doc, annots'),
                                               comments |-> <<>>])]
                         ELSE SaveRaised(PdfBytes(pdf_doc, <<>>), error)
    /\ pc' = IF returned'.raised = None THEN "returned" ELSE "raised"
    /\ UNCHANGED <<ivars, rvars, resvars, comments, color_index, det_index, issue_log,
                   footnote_log, response, hvars, dvars, lvars, xvars>>

\* annotate.py lines 463-572
AnnotateDocumentWide ==
    /\ pc = "annotate"
    /\ has_issues = TRUE
    /\ pc' = "disclaimers"
    /\ \E st \in {AnnotateDocumentResults(
                    [comments |-> comments, annots |-> annots,
                     color_index |-> color_index, issue_log |-> issue_log],
                    pdf_doc, checklist_results, 1)} :
          /\ comments' = st.comments
          /\ annots' = st.annots
          /\ color_index' = st.color_index
          /\ issue_log' = st.issue_log
    /\ det_index' = 1
    /\ UNCHANGED <<ivars, rvars, resvars, footnote_log, svars, hvars, dvars, lvars, xvars>>

\* annotate.py lines 575-715, one pass of the loop
AnnotateDisclaimer ==
    /\ pc = "disclaimers"
    /\ det_index <= Len(all_detected)
    /\ \E st \in {AnnotateDisclaimerResult(
                    [comments |-> comments, annots |-> annots,
                     color_index |-> color_index, issue_log |-> issue_log],
                    pdf_doc, checklist_results, all_detected[det_index])} :
          /\ comments' = st.comments
          /\ annots' = st.annots
          /\ color_index' = st.color_index
          /\ issue_log' = st.issue_log
    /\ det_index' = det_index + 1
    /\ UNCHANGED <<pc, ivars, rvars, resvars, footnote_log, svars, hvars, dvars, lvars,
                   xvars>>

\* annotate.py lines 717-776
AnnotateFootnotesAndFormatting ==
    /\ pc = "disclaimers"
    /\ det_index > Len(all_detected)
    /\ pc' = "dedup"
    /\ \E st \in {AnnotateFootnoteIssues(
                    [comments |-> comments,
                     annots |-> HighlightRedText(annots, pdf_doc, formatting_issues),
                     footnote_log |-> footnote_log],
                    pdf_doc, footnote_issues, footnotes_locations)} :
          /\ comments' = CommentFormattingIssues(st.comments, formatting_issues)
          /\ annots' = st.annots
          /\ footnote_log' = st.footnote_log
    /\ UNCHANGED <<ivars, rvars, resvars, color_index, det_index, issue_log,
                   svars, hvars, dvars, lvars, xvars>>

\* annotate.py lines 778-795
DedupAndSort ==
    /\ pc = "dedup"
    /\ pc' = "save"
    /\ comments' = SortCommentsByPage(DedupComments(comments))
    /\ UNCHANGED <<ivars, rvars, resvars, color_index, annots, det_index, issue_log, footnote_log,
                   svars, hvars, dvars, lvars, xvars>>

\* annotate.py lines 798-800 and 803-805
SaveIncremental ==
    /\ pc = "save"
    /\ \E ok \in BOOLEAN :
          /\ save_log' = Append(save_log, [incremental |-> TRUE, ok |-> ok])
          /\ returned' = IF ok
                         THEN [raised |-> None,
                               value |-> Some([pdf |-> PdfBytes(pdf_doc, annots),
                                               comments |-> comments])]
                         ELSE returned
          /\ pc' = IF ok THEN "returned" ELSE "save_full"
    /\ UNCHANGED <<ivars, rvars, resvars, avars, response, hvars, dvars, lvars, xvars>>

\* annotate.py lines 801-805
SaveFull ==
    /\ pc = "save_full"
    /\ \E ok \in BOOLEAN, error \in SaveErrors :
          /\ save_log' = Append(save_log, [incremental |-> FALSE, ok |-> ok])
          /\ returned' = IF ok
                         THEN [raised |-> None,
                               value |-> Some([pdf |-> PdfBytes(pdf_doc, annots),
                                               comments |-> comments])]
                         ELSE SaveRaised(PdfBytes(pdf_doc, <<>>), error)
    /\ pc' = IF returned'.raised = None THEN "returned" ELSE "raised"
    /\ UNCHANGED <<ivars, rvars, resvars, avars, response, hvars, dvars, lvars, xvars>>

\* analyze.py lines 72-94, and 98-99 when the insert fails
StoreAndRespond ==
    /\ pc = "returned"
    /\ pc' = "done"
    /\ \E inserted \in BOOLEAN :
          response' = IF inserted
                      THEN Some([status |-> 200,
                                 annotated_pdf |-> Some(returned.value[1].pdf),
                                 comments |-> returned.value[1].comments])
                      ELSE Some([status |-> StatusOf("PyMongoError"),
                                 annotated_pdf |-> None, comments |-> <<>>])
    /\ UNCHANGED <<ivars, rvars, resvars, avars, save_log, returned, hvars, dvars, lvars, xvars>>

\* analyze.py lines 96-99
RespondError ==
    /\ pc = "raised"
    /\ pc' = "done"
    /\ response' = Some([status |-> StatusOf(returned.raised[1]),
                         annotated_pdf |-> None, comments |-> <<>>])
    /\ UNCHANGED <<ivars, rvars, resvars, avars, save_log, returned, hvars, dvars, lvars, xvars>>

Next ==
    \/ ScanRedFlags
    \/ CheckDocumentChunked
    \/ CheckDisclaimers
    \/ Aggregate
    \/ FootnoteAndFormattingChecks
    \/ ReturnWithoutIssues
    \/ AnnotateDocumentWide
    \/ AnnotateDisclaimer
    \/ AnnotateFootnotesAndFormatting
    \/ DedupAndSort
    \/ SaveIncremental
    \/ SaveFull
    \/ StoreAndRespond
    \/ RespondError

Spec == Init /\ [][Next]_vars

-----------------------------------------------------------------------------
(* footnotes.py.  A document is the sequence of its pages; a page has a    *)
(* height and the spans of page.get_text("dict") in reading order, each    *)
(* span the only one of its line and its line the only one of its block,   *)
(* so a block's y0 is its span's y0.                                       *)

Span(text, y0, size, color, bbox) ==
    [text |-> text, y0 |-> y0, size |-> size, color |-> color, bbox |-> bbox]

Page(height, spans) == [height |-> height, spans |-> spans]

\* lines 32 and 39: `y0 >= page_height * 0.75`
InFootnoteZone(page, span) == 4 * span.y0 >= 3 * page.height

FootnoteZoneSpans(page) == SelectSeq(page.spans, LAMBDA s : InFootnoteZone(page, s))

\* a plausible slip: a block on the threshold counted as body text too
InBodyZoneInclusive(page, span) == 4 * span.y0 <= 3 * page.height

\* lines 122 and 178: a block is skipped when `bbox[1] >= footnote_y_threshold`
InBodyZone(page, span) == ~(4 * span.y0 >= 3 * page.height)

BodyZoneSpans(page) == SelectSeq(page.spans, LAMBDA s : InBodyZone(page, s))

\* the pages a loop over the document gets through when get_text raises on
\* page fail: the one try around the loop ends it there (0: no page raises)
PagesRead(doc, fail) == IF fail = 0 THEN Len(doc) ELSE fail - 1

\* [\.\)\s]
LabelSeparators == {".", ")"} \cup Whitespace

\* how many characters of class follow each other in s from position from
RunLength(s, from, class) ==
    LET stops == {i \in from..Len(s) : Char(s, i) \notin class}
    IN IF stops = {} THEN Len(s) - from + 1
       ELSE (CHOOSE i \in stops : \A j \in stops : i <= j) - from

\* re.match(r"^(K+)S+(.+)$", line_text) for character classes K and S that
\* share no character: None, or the two groups.  The greedy S+ gives its last
\* character back to (.+) when it ran to the end of the line
MatchLabel(line_text, key_class, sep_class) ==
    LET n == RunLength(line_text, 1, key_class)
        m == RunLength(line_text, n + 1, sep_class)
    IN IF n = 0 \/ m = 0 THEN None
       ELSE IF n + m < Len(line_text)
       THEN Some([key |-> Take(line_text, n), text |-> Drop(line_text, n + m)])
       ELSE IF m >= 2
       THEN Some([key |-> Take(line_text, n), text |-> Char(line_text, Len(line_text))])
       ELSE None

\* a dict as the sequence of its items in insertion order
DictHas(d, key) == \E i \in 1..Len(d) : d[i].key = key

\* d[key] = item: in place when the key is there, at the end otherwise
DictSet(d, item) ==
    IF DictHas(d, item.key)
    THEN [i \in 1..Len(d) |-> IF d[i].key = item.key THEN item ELSE d[i]]
    ELSE Append(d, item)

\* lines 57-59 and 64-66: a label line opens (or re-opens) its key
OpenLabel(st, key, text, page_no, line_bbox) ==
    [st EXCEPT !.result = DictSet(@, [key |-> key, text |-> text]),
               !.locations = IF line_bbox # None
                             THEN DictSet(@, [key |-> key, page |-> page_no,
                                              bbox |-> line_bbox[1]])
                             ELSE @,
               !.last_opened = Some(key)]

\* lines 68-69: `last_key = list(result.keys())[-1]`, the key inserted last
ContinueLabel(st, line_text) ==
    LET last_key == st.result[Len(st.result)].key
    IN [st EXCEPT !.result[Len(st.result)].text = @ \o " " \o line_text,
                  !.continuations = Append(@, [line |-> line_text,
                                               appended_to |-> last_key,
                                               last_opened |-> st.last_opened])]

\* lines 53-69 for a line with its match
ExtractMatched(st, tagged, line_text, match) ==
    IF match # None
    THEN IF Strip(match[1].text) # ""
         THEN OpenLabel(st, match[1].key, Strip(match[1].text), tagged.page,
                        tagged.span.bbox)
         ELSE st
    ELSE IF st.result # <<>> THEN ContinueLabel(st, line_text)
    ELSE st

\* lines 51-52: the numbered pattern first, the asterisk pattern otherwise
LabelMatch(line_text) ==
    IF MatchLabel(line_text, Digits, LabelSeparators) # None
    THEN MatchLabel(line_text, Digits, LabelSeparators)
    ELSE MatchLabel(line_text, {"*"}, Whitespace)

\* lines 41-69 for one line of the footnote zone
ExtractLine(st, tagged) ==
    IF Len(Strip(tagged.span.text)) < 2 THEN st
    ELSE ExtractMatched(st, tagged, Strip(tagged.span.text),
                        LabelMatch(Strip(tagged.span.text)))

Tagged(page_no, spans) == [i \in 1..Len(spans) |-> [page |-> page_no, span |-> spans[i]]]

\* the footnote-zone lines of pages 1..n with their page numbers
RECURSIVE FootnoteLines(_, _)
FootnoteLines(doc, n) ==
    IF n = 0 THEN <<>>
    ELSE FootnoteLines(doc, n - 1) \o Tagged(n, FootnoteZoneSpans(doc[n]))

RECURSIVE ExtractLines(_, _, _)
ExtractLines(lines, i, st) ==
    IF i > Len(lines) THEN st
    ELSE ExtractLines(lines, i + 1, ExtractLine(st, lines[i]))

\* extract_footnotes_from_pdf: result, locations, and as history the label
\* opened last and where each continuation line went
extract_footnotes_from_pdf(doc, fail) ==
    ExtractLines(FootnoteLines(doc, PagesRead(doc, fail)), 1,
                 [result |-> <<>>, locations |-> <<>>,
                  last_opened |-> None, continuations |-> <<>>])

\* _span_is_footnote_ref: the trimmed text when it is all digits or all asterisks
_span_is_footnote_ref(span_text) ==
    IF Strip(span_text) = "" THEN None
    ELSE IF \A i \in 1..Len(Strip(span_text)) : Char(Strip(span_text), i) \in Digits
    THEN Some(Strip(span_text))
    ELSE IF \A i \in 1..Len(Strip(span_text)) : Char(Strip(span_text), i) = "*"
    THEN Some(Strip(span_text))
    ELSE None

ReferenceIssue(page_no, ref, span_bbox) ==
    [page |-> page_no, issue_type |-> "footnote_reference_missing",
     message |-> "Footnote reference '" \o ref
                 \o "' has no matching footnote in this document.",
     reference |-> ref, bbox |-> span_bbox]

\* a plausible slip: every occurrence of a reference reported
RECURSIVE CheckSpansUnseen(_, _, _, _, _, _)
CheckSpansUnseen(spans, i, page_no, labels, seen_refs_this_page, issues) ==
    IF i > Len(spans) THEN issues
    ELSE CheckSpansUnseen(spans, i + 1, page_no, labels, seen_refs_this_page,
            IF _span_is_footnote_ref(spans[i].text) # None
               /\ ~DictHas(labels, _span_is_footnote_ref(spans[i].text)[1])
            THEN Append(issues, ReferenceIssue(page_no,
                            _span_is_footnote_ref(spans[i].text)[1], spans[i].bbox))
            ELSE issues)

\* lines 118-141: the body-zone spans of one page
RECURSIVE CheckSpans(_, _, _, _, _, _)
CheckSpans(spans, i, page_no, labels, seen_refs_this_page, issues) ==
    IF i > Len(spans) THEN issues
    ELSE LET ref == _span_is_footnote_ref(spans[i].text)
         IN IF ref = None \/ ref[1] \in seen_refs_this_page
            THEN CheckSpans(spans, i + 1, page_no, labels, seen_refs_this_page, issues)
            ELSE CheckSpans(spans, i + 1, page_no, labels,
                            seen_refs_this_page \cup {ref[1]},
                            IF DictHas(labels, ref[1]) THEN issues
                            ELSE Append(issues,
                                        ReferenceIssue(page_no, ref[1], spans[i].bbox)))

\* lines 111-141 for pages 1..n
RECURSIVE CheckPages(_, _, _)
CheckPages(doc, n, labels) ==
    IF n = 0 THEN <<>>
    ELSE CheckPages(doc, n - 1, labels)
         \o CheckSpans(BodyZoneSpans(doc[n]), 1, n, labels, {}, <<>>)

\* check_footnote_references: nothing for an empty footnotes dict (line 107)
check_footnote_references(doc, fail, labels) ==
    IF labels = <<>> THEN <<>>
    ELSE CheckPages(doc, PagesRead(doc, fail), labels)

ColorTextLen == 100

HexDigit(n) == Char("0123456789abcdef", n + 1)

\* f"{n:02x}"
Hex2(n) == HexDigit(n \div 16) \o HexDigit(n % 16)

Red(color) == (color \div 65536) % 256
Green(color) == (color \div 256) % 256
Blue(color) == color % 256

\* a plausible slip: `r > 100`
IsUnusualColorAbove(span) ==
    /\ Len(Strip(span.text)) >= 2
    /\ span.color # 0
    /\ Red(span.color) > 100 /\ Green(span.color) <= 120 /\ Blue(span.color) <= 120
    /\ (Red(span.color) > Green(span.color) \/ Red(span.color) > Blue(span.color))

\* lines 253-265: red or red-orange text of two characters or more
IsUnusualColor(span) ==
    /\ Len(Strip(span.text)) >= 2
    /\ span.color # 0
    /\ Red(span.color) >= 100 /\ Green(span.color) <= 120 /\ Blue(span.color) <= 120
    /\ (Red(span.color) > Green(span.color) \/ Red(span.color) > Blue(span.color))

\* lines 266-272
ColorIssue(page_no, span) ==
    [page |-> page_no, text |-> Take(Strip(span.text), ColorTextLen),
     color_hex |-> "#" \o Hex2(Red(span.color)) \o Hex2(Green(span.color))
                       \o Hex2(Blue(span.color)),
     bbox |-> span.bbox[1]]

ColorIssuesOfPage(page, page_no) ==
    LET flagged == SelectSeq(page.spans, IsUnusualColor)
    IN [i \in 1..Len(flagged) |-> ColorIssue(page_no, flagged[i])]

RECURSIVE ColorPages(_, _)
ColorPages(doc, n) ==
    IF n = 0 THEN <<>>
    ELSE ColorPages(doc, n - 1) \o ColorIssuesOfPage(doc[n], n)

\* get_unusual_colored_text
get_unusual_colored_text(doc, fail) == ColorPages(doc, PagesRead(doc, fail))

\* twice statistics.median(sizes), for a non-empty list
Median2(sizes) ==
    LET sorted == SortSeq(sizes, LAMBDA a, b : a < b)
        n == Len(sizes)
    IN IF n % 2 = 1 THEN 2 * sorted[(n + 1) \div 2]
       ELSE sorted[n \div 2] + sorted[n \div 2 + 1]

\* the first index of seq that is in S, 0 when there is none
FirstIn(S) == IF S = {} THEN 0 ELSE CHOOSE i \in S : \A j \in S : i <= j

\* lines 174-197: the first body span with the text and a bbox ends the search
ExactMatches(body, ref_text) ==
    {i \in 1..Len(body) : Strip(body[i].text) = ref_text /\ body[i].bbox # None}

\* lines 199-228: reached without a match of the first loop; `size <=
\* median_size * 0.92` picks a small span, and the first match ends the
\* search after its line
SizeHeuristic(body, ref_text) ==
    LET matches == ExactMatches(body, ref_text)
        sizes == [i \in 1..Len(body) |-> body[i].size]
        Small(i) == sizes = <<>> \/ 200 * body[i].size <= 92 * Median2(sizes)
    IN IF matches = {} THEN None
       ELSE IF \E i \in matches : Small(i) /\ \A j \in matches : j < i => Small(j)
       THEN body[FirstIn({i \in matches : Small(i)})].bbox
       ELSE body[FirstIn(matches)].bbox

\* find_ref_bbox_on_page: None for an empty text, a page out of range or a
\* page whose get_text raises (line 229)
find_ref_bbox_on_page(doc, fail, page_1based, ref_text) ==
    IF ref_text = "" THEN None
    ELSE IF page_1based - 1 < 0 \/ page_1based - 1 >= Len(doc) THEN None
    ELSE IF page_1based = fail THEN None
    ELSE IF ExactMatches(BodyZoneSpans(doc[page_1based]), Strip(ref_text)) # {}
    THEN BodyZoneSpans(doc[page_1based])[
             FirstIn(ExactMatches(BodyZoneSpans(doc[page_1based]), Strip(ref_text)))].bbox
    ELSE SizeHeuristic(BodyZoneSpans(doc[page_1based]), Strip(ref_text))

-----------------------------------------------------------------------------
(* SpecFootnotes: run_footnote_and_formatting_checks on a document, then a *)
(* lookup of find_ref_bbox_on_page as generate_analysis_result makes it    *)

RGB(r, g, b) == r * 65536 + g * 256 + b

Box(x0, y0) == Some(<<x0, y0, x0 + 5, y0 + 2>>)

\* body text of size 10 with markers of size 6 and a list number "3" of size
\* 10 before the marker "3"; label 1 is opened on page 1 and again on page 3
FnDocFund ==
    << Page(100, << Span("Fund overview", 10, 10, 0, Box(1, 10)),
                    Span("1", 12, 6, 0, Box(8, 12)),
                    Span("3", 20, 10, 0, Box(1, 20)),
                    Span("Growth target", 20, 10, 0, Box(3, 20)),
                    Span(" 3 ", 22, 6, 0, Box(9, 22)),
                    Span("DRAFT", 30, 10, RGB(255, 0, 0), Box(1, 30)),
                    Span("1. First note", 80, 8, 0, Box(1, 80)),
                    Span("continued on one", 84, 8, 0, Box(1, 84)) >>),
       Page(100, << Span("Performance", 10, 10, 0, Box(1, 10)),
                    Span("2", 12, 6, 0, Box(8, 12)),
                    Span("3", 14, 6, 0, Box(8, 14)),
                    Span("**", 16, 6, 0, Box(8, 16)),
                    Span("3", 18, 6, 0, Box(8, 18)),
                    Span("remove this", 30, 10, RGB(200, 100, 50), Box(1, 30)),
                    Span("Heading", 40, 12, RGB(0, 0, 255), Box(1, 40)),
                    Span("2) Second note", 80, 8, 0, Box(1, 80)) >>),
       Page(100, << Span("Outlook", 10, 10, 0, Box(1, 10)),
                    Span("4", 12, 6, 0, Box(8, 12)),
                    Span("TODO check", 30, 10, RGB(220, 20, 60), Box(1, 30)),
                    Span("1. First note again", 80, 8, 0, Box(1, 80)),
                    Span("and more", 84, 8, 0, Box(1, 84)) >>) >>

\* no footnote zone text at all, markers in the body
FnDocPlain ==
    << Page(100, << Span("Market commentary", 10, 10, 0, Box(1, 10)),
                    Span("7", 12, 6, 0, Box(8, 12)),
                    Span("old text", 30, 10, RGB(255, 0, 0), Box(1, 30)) >>),
       Page(100, << Span("7", 12, 10, 0, Box(1, 12)),
                    Span("7", 14, 6, 0, Box(8, 14)),
                    Span("*", 16, 6, 0, Box(8, 16)),
                    Span("x", 30, 10, RGB(255, 0, 0), Box(1, 30)) >>) >>

\* asterisk labels, a continuation line on the page after its label, a line
\* before any label, a numbered line without text
FnDocStars ==
    << Page(80, << Span("Key facts", 10, 10, 0, Box(1, 10)),
                   Span("*", 12, 6, 0, Box(8, 12)),
                   Span("***", 14, 6, 0, Box(8, 14)),
                   Span("see overleaf", 60, 8, 0, Box(1, 60)),
                   Span("* Source: fund", 64, 8, RGB(255, 0, 0), Box(1, 64)) >>),
       Page(80, << Span("5", 12, 6, 0, Box(8, 12)),
                   Span("*", 14, 6, 0, Box(8, 14)),
                   Span("data as of June", 60, 8, 0, Box(1, 60)),
                   Span("** Net of fees", 64, 8, 0, Box(1, 64)),
                   Span("3.", 68, 8, 0, Box(1, 68)),
                   Span("5 .", 72, 8, 0, Box(1, 72)) >>) >>

\* a marker on the threshold of page 1, and a page of notes only: every block
\* of page 2 is in the footnote zone, two of them marker-like
FnDocNotes ==
    << Page(100, << Span("Risk summary", 10, 10, 0, Box(1, 10)),
                    Span("1", 12, 6, 0, Box(8, 12)),
                    Span("5", 14, 6, 0, Box(8, 14)),
                    Span("9", 75, 6, 0, Box(8, 75)),
                    Span("1. Past performance", 80, 8, 0, Box(1, 80)) >>),
       Page(100, << Span("2. Net of fees", 76, 8, 0, Box(1, 76)),
                    Span("8", 80, 6, 0, Box(8, 80)),
                    Span("**", 84, 6, 0, Box(8, 84)),
                    Span("!!", 88, 8, RGB(255, 0, 0), Box(1, 88)) >>) >>

\* one page of colours on the edges of the red test, a red letter, a red blank
FnDocColors ==
    << Page(100, << Span("edge red", 10, 10, RGB(100, 120, 99), Box(1, 10)),
                    Span("olive", 12, 10, RGB(100, 120, 120), Box(1, 12)),
                    Span("dark red", 14, 10, RGB(99, 0, 0), Box(1, 14)),
                    Span("orange", 16, 10, RGB(255, 121, 0), Box(1, 16)),
                    Span("magenta", 18, 10, RGB(255, 0, 121), Box(1, 18)),
                    Span("khaki", 20, 10, RGB(110, 110, 50), Box(1, 20)),
                    Span("teal", 22, 10, RGB(0, 110, 110), Box(1, 22)),
                    Span("r", 24, 10, RGB(255, 0, 0), Box(1, 24)),
                    Span("  ", 26, 10, RGB(255, 0, 0), Box(1, 26)),
                    Span(" ok ", 28, 10, RGB(180, 0, 0), Box(1, 28)),
                    Span("plain", 30, 10, 0, Box(1, 30)) >>) >>

FnDocs == {FnDocFund, FnDocPlain, FnDocStars, FnDocNotes, FnDocColors}

\* the references a lookup is made for
RefTexts == {"3", " * ", "7", ""}

InitFootnotes ==
    /\ fn_pc = "extract"
    /\ fn_doc \in FnDocs
    /\ fn_fail \in 0..Len(fn_doc)
    /\ fn_query \in {<<[page |-> p, ref_text |-> t]>> :
                        p \in 1..(Len(fn_doc) + 1), t \in RefTexts}
    /\ footnotes = <<>> /\ footnote_locations = <<>> /\ fn_continuations = <<>>
    /\ fn_issues = <<>> /\ unusual_color_issues = <<>>
    /\ candidate_bbox = None
    /\ IdleDedup
    /\ IdleLocate
    /\ IdlePipeline
    /\ IdleWrites
    /\ IdleOrder
    /\ IdleRules

\* footnotes.py line 324
ExtractFootnotes ==
    /\ fn_pc = "extract"
    /\ fn_pc' = "check"
    /\ \E st \in {extract_footnotes_from_pdf(fn_doc, fn_fail)} :
          /\ footnotes' = st.result
          /\ footnote_locations' = st.locations
          /\ fn_continuations' = st.continuations
    /\ UNCHANGED <<fn_doc, fn_fail, fn_query, fn_issues, unusual_color_issues,
                   candidate_bbox, dvars, lvars, pvars, uvars, wvars, ovars>>

\* footnotes.py line 325
CheckFootnoteReferences ==
    /\ fn_pc = "check"
    /\ fn_pc' = "color"
    /\ fn_issues' = check_footnote_references(fn_doc, fn_fail, footnotes)
    /\ UNCHANGED <<fn_doc, fn_fail, fn_query, footnotes, footnote_locations,
                   fn_continuations, unusual_color_issues, candidate_bbox,
                   dvars, lvars, pvars, uvars, wvars, ovars>>

\* footnotes.py line 326
GetUnusualColoredText ==
    /\ fn_pc = "color"
    /\ fn_pc' = "find"
    /\ unusual_color_issues' = get_unusual_colored_text(fn_doc, fn_fail)
    /\ UNCHANGED <<fn_doc, fn_fail, fn_query, footnotes, footnote_locations,
                   fn_continuations, fn_issues, candidate_bbox, dvars, lvars, pvars, uvars, wvars, ovars>>

\* report.py lines 1625 and 1639
FindRefBbox ==
    /\ fn_pc = "find"
    /\ fn_pc' = "done"
    /\ candidate_bbox' = find_ref_bbox_on_page(fn_doc, fn_fail, fn_query[1].page,
                                               fn_query[1].ref_text)
    /\ UNCHANGED <<fn_doc, fn_fail, fn_query, footnotes, footnote_locations,
                   fn_continuations, fn_issues, unusual_color_issues,
                   dvars, lvars, pvars, uvars, wvars, ovars>>

NextFootnotes ==
    \/ ExtractFootnotes
    \/ CheckFootnoteReferences
    \/ GetUnusualColoredText
    \/ FindRefBbox

SpecFootnotes == InitFootnotes /\ [][NextFootnotes]_vars

-----------------------------------------------------------------------------
(* SpecWrites: the annotation writes of process_pdf_page_by_page for the   *)
(* located regions of an analysis result, one of which may raise.  The     *)
(* regions are numbered within their kind; dedup, sort and save follow as  *)
(* in Spec.                                                                *)

\* the kinds of finding in the order lines 464-764 go through them
FindingKinds == <<"document", "disclaimer", "unusual_color", "footnote">>

\* how many located regions a request has of each kind
RegionCounts == 0..2

\* add_highlight_with_popup (lines 64-79) when a write of it may raise: the
\* highlight calls are outside any try, the sticky note's are inside one
WriteHighlightWithPopup(page_annots, kind, k, outcome) ==
    IF outcome = "highlight_raises"
    THEN [annots |-> page_annots, raised |-> TRUE]
    ELSE IF outcome = "note_raises"
    THEN [annots |-> Append(page_annots, [kind |-> kind, region |-> k, annot |-> "highlight"]),
          raised |-> FALSE]
    ELSE [annots |-> page_annots
                     \o <<[kind |-> kind, region |-> k, annot |-> "highlight"],
                          [kind |-> kind, region |-> k, annot |-> "note"]>>,
          raised |-> FALSE]

\* the kind whose regions are being written: the first with one left
CurrentKind(plan, done) ==
    IF \A i \in 1..Len(FindingKinds) : done[FindingKinds[i]] = plan[FindingKinds[i]]
    THEN "none"
    ELSE FindingKinds[CHOOSE i \in 1..Len(FindingKinds) :
            /\ done[FindingKinds[i]] < plan[FindingKinds[i]]
            /\ \A j \in 1..(i - 1) : done[FindingKinds[j]] = plan[FindingKinds[j]]]

\* what a write can do; one write at most raises in a run
WriteOutcomes(fault) ==
    IF fault = None THEN {"written", "highlight_raises", "note_raises"} ELSE {"written"}

FaultOf(fault, kind, k, outcome) ==
    IF outcome = "written" THEN fault
    ELSE Some([kind |-> kind, region |-> k, write |-> outcome])

InitWrites ==
    /\ w_pc = "annotating"
    /\ w_plan \in {p \in [{"document", "disclaimer", "unusual_color", "footnote"} -> RegionCounts] :
                      \E kind \in DOMAIN p : p[kind] > 0}
    /\ w_done = [kind \in {"document", "disclaimer", "unusual_color", "footnote"} |-> 0]
    /\ w_annots = <<>> /\ w_comments = <<>> /\ w_fault = None
    /\ IdleDedup
    /\ IdleLocate
    /\ IdlePipeline
    /\ IdleFootnotes
    /\ IdleOrder
    /\ IdleRules

\* annotate.py lines 533-558 and 678-700: the call of add_highlight_with_popup
\* is in no try, the comment follows it
WriteFindingHighlight(kind) ==
    /\ w_pc = "annotating"
    /\ CurrentKind(w_plan, w_done) = kind
    /\ \E outcome \in WriteOutcomes(w_fault) :
          /\ w_fault' = FaultOf(w_fault, kind, w_done[kind] + 1, outcome)
          /\ \E r \in {WriteHighlightWithPopup(w_annots, kind, w_done[kind] + 1, outcome)} :
                /\ w_annots' = r.annots
                /\ IF r.raised
                   THEN /\ w_pc' = "raised"
                        /\ UNCHANGED <<w_done, w_comments>>
                   ELSE /\ w_done' = [w_done EXCEPT ![kind] = @ + 1]
                        /\ w_comments' = Append(w_comments,
                                                [kind |-> kind, region |-> w_done[kind] + 1])
                        /\ UNCHANGED w_pc
    /\ UNCHANGED <<w_plan, dvars, lvars, pvars, uvars, fvars, ovars>>

\* lines 533-558
WriteDocumentHighlight == WriteFindingHighlight("document")

\* lines 678-700
WriteDisclaimerHighlight == WriteFindingHighlight("disclaimer")

\* lines 718-731: the whole write is in a try whose except passes
WriteRedTextHighlight ==
    /\ w_pc = "annotating"
    /\ CurrentKind(w_plan, w_done) = "unusual_color"
    /\ \E outcome \in WriteOutcomes(w_fault) :
          /\ w_fault' = FaultOf(w_fault, "unusual_color", w_done.unusual_color + 1, outcome)
          /\ w_annots' = WriteHighlightWithPopup(w_annots, "unusual_color",
                                                 w_done.unusual_color + 1, outcome).annots
    /\ w_done' = [w_done EXCEPT !.unusual_color = @ + 1]
    /\ UNCHANGED <<w_pc, w_plan, w_comments, dvars, lvars, pvars, uvars, fvars, ovars>>

\* lines 735-764: the comment first, then the write in a try whose except passes
WriteFootnoteHighlight ==
    /\ w_pc = "annotating"
    /\ CurrentKind(w_plan, w_done) = "footnote"
    /\ \E outcome \in WriteOutcomes(w_fault) :
          /\ w_fault' = FaultOf(w_fault, "footnote", w_done.footnote + 1, outcome)
          /\ w_annots' = WriteHighlightWithPopup(w_annots, "footnote",
                                                 w_done.footnote + 1, outcome).annots
    /\ w_comments' = Append(w_comments, [kind |-> "footnote", region |-> w_done.footnote + 1])
    /\ w_done' = [w_done EXCEPT !.footnote = @ + 1]
    /\ UNCHANGED <<w_pc, w_plan, dvars, lvars, pvars, uvars, fvars, ovars>>

\* lines 766-805: the formatting comments, then the document and the comments
\* go back to the caller
ReturnAnnotated ==
    /\ w_pc = "annotating"
    /\ CurrentKind(w_plan, w_done) = "none"
    /\ w_pc' = "returned"
    /\ w_comments' = w_comments \o [k \in 1..w_plan.unusual_color |->
                                       [kind |-> "unusual_color", region |-> k]]
    /\ UNCHANGED <<w_plan, w_done, w_annots, w_fault, dvars, lvars, pvars, uvars, fvars, ovars>>

NextWrites ==
    \/ WriteDocumentHighlight
    \/ WriteDisclaimerHighlight
    \/ WriteRedTextHighlight
    \/ WriteFootnoteHighlight
    \/ ReturnAnnotated

SpecWrites == InitWrites /\ [][NextWrites]_vars

-----------------------------------------------------------------------------
(* SpecOrder: one request analysed twice with the same classifier          *)
(* responses, first with the calls completing in the order of submission,  *)
(* then in another order.  as_completed hands the results over in the      *)
(* order of completion (report.py lines 507 and 834).                      *)

\* the results in the order their calls completed
InCompletionOrder(responses, order) == [k \in 1..Len(order) |-> responses[order[k]]]

CompletionOrders(n) == {f \in [1..n -> 1..n] : \A i, j \in 1..n : f[i] = f[j] => i = j}

Identity(n) == [i \in 1..n |-> i]

\* the response to one chunk (report.py lines 825 and 829)
ChunkData(violations, missing_required) ==
    [violations |-> violations, missing_required |-> missing_required]

RECURSIVE ChunkViolations(_, _)
ChunkViolations(chunk_data, i) ==
    IF i > Len(chunk_data) THEN <<>>
    ELSE chunk_data[i].violations \o ChunkViolations(chunk_data, i + 1)

RECURSIVE ChunkMissing(_, _)
ChunkMissing(chunk_data, i) ==
    IF i > Len(chunk_data) THEN <<>>
    ELSE chunk_data[i].missing_required \o ChunkMissing(chunk_data, i + 1)

\* report.py lines 830-864: one document-wide result from the chunks' data
\* in the order they arrive
ChunkedResult(chunk_data) ==
    << ChecklistResult(None, ChunkMissing(chunk_data, 1),
                       ViolationsOf(ChunkViolations(chunk_data, 1)),
                       ChunkViolations(chunk_data, 1)) >>

\* report.py lines 1501-1513 with an API key: the scan, the chunked pass when
\* the scan found nothing, the per-item calls of the one disclaimer
GatherResults(doc, detected, items, chunk_data, red_flags) ==
    [red_flag_details |-> red_flags,
     document_checklist_results |->
         IF RunsChunkedPass(doc, red_flags) THEN ChunkedResult(chunk_data) ELSE <<>>,
     disclaimer_checklist_results |-> <<DisclaimerResult(detected, items)>>]

\* annotate.py lines 464-715 and 778-795 for one detected disclaimer and no
\* footnote or formatting issue
CommentsOfResults(doc, results, detected) ==
    SortCommentsByPage(DedupComments(
        AnnotateDisclaimerResult(
            AnnotateDocumentResults(
                [comments |-> <<>>, annots |-> <<>>, color_index |-> 0, issue_log |-> <<>>],
                doc, results, 1),
            doc, results, detected).comments))

\* thirteen pages, so two chunks; nothing the red-flag scan matches
DocLong == [i \in 1..(PagesPerChunk - 1) |-> "Appendix table of holdings."] \o DocClean

ItemGuaranteeAgain ==
    NonCompliantItem("Must not promise a specific performance",
                     "Disclaimer promises a profit", "Guaranteed return")

\* the non-compliant items of the disclaimer in the order of submission
SubmittedItems ==
    { <<ItemPast, ItemGuarantee>>,
      <<ItemGuarantee, ItemRisk>>,
      <<ItemGuarantee, ItemGuaranteeAgain, ItemRisk>> }

\* the data of the chunks in the order of submission
SubmittedChunks(doc) ==
    IF ChunkCount(doc) < 2 THEN << ChunkData(<<>>, <<>>) >>
    ELSE << ChunkData(<<ViolationDetail("Implied promise of profit", None)>>,
                      <<MissingPhrase("Past performance warning", Some("Item 4"), None)>>),
            ChunkData(<<ViolationDetail("Misleading statement about capital",
                                        Some("capital is at risk"))>>, <<>>) >>

InitOrder ==
    /\ o_pc = "gather"
    /\ o_doc \in {DocFund, DocLong}
    /\ o_detected = DetectedDisclaimer(o_doc[Len(o_doc)], Some("UAE"))
    /\ o_items \in SubmittedItems
    /\ o_chunks = SubmittedChunks(o_doc)
    /\ o_order \in {[items |-> f, chunks |-> g] :
                       f \in CompletionOrders(Len(o_items)), g \in CompletionOrders(Len(o_chunks))}
    /\ o_gathered = <<>> /\ o_findings = <<>> /\ o_outputs = <<>>
    /\ IdleDedup
    /\ IdleLocate
    /\ IdlePipeline
    /\ IdleFootnotes
    /\ IdleWrites
    /\ IdleRules

\* the order the calls of the run complete in: submission order the first time
RunOrder ==
    IF o_outputs = <<>>
    THEN [items |-> Identity(Len(o_items)), chunks |-> Identity(Len(o_chunks))]
    ELSE o_order

\* report.py lines 1501-1513
GatherInCompletionOrder ==
    /\ o_pc = "gather"
    /\ o_pc' = "aggregate"
    /\ o_gathered' = <<GatherResults(o_doc, o_detected,
                          InCompletionOrder(o_items, RunOrder.items),
                          InCompletionOrder(o_chunks, RunOrder.chunks),
                          deduplicate_violation_details(scan_document_red_flags(o_doc)))>>
    /\ UNCHANGED <<o_doc, o_detected, o_items, o_chunks, o_order, o_findings, o_outputs,
                   dvars, lvars, pvars, uvars, fvars, wvars>>

\* report.py lines 1515-1567
AggregateFindings ==
    /\ o_pc = "aggregate"
    /\ o_pc' = "annotate"
    /\ o_findings' = AggregateResults(
                         MergeRedFlags(o_gathered[1].document_checklist_results,
                                       o_gathered[1].red_flag_details),
                         o_gathered[1].disclaimer_checklist_results)
    /\ UNCHANGED <<o_doc, o_detected, o_items, o_chunks, o_order, o_gathered, o_outputs,
                   dvars, lvars, pvars, uvars, fvars, wvars>>

\* annotate.py lines 464-795
AnnotateFindings ==
    /\ o_pc = "annotate"
    /\ o_pc' = IF o_outputs = <<>> THEN "gather" ELSE "done"
    /\ o_outputs' = Append(o_outputs,
                           [findings |-> o_findings,
                            comments |-> CommentsOfResults(o_doc, o_findings, o_detected)])
    /\ UNCHANGED <<o_doc, o_detected, o_items, o_chunks, o_order, o_gathered, o_findings,
                   dvars, lvars, pvars, uvars, fvars, wvars>>

NextOrder ==
    \/ GatherInCompletionOrder
    \/ AggregateFindings
    \/ AnnotateFindings

SpecOrder == InitOrder /\ [][NextOrder]_vars

-----------------------------------------------------------------------------
(* SpecRules: classify_risk_level, then determine_approval_status on its   *)
(* result, as report.py lines 1585-1588 call them                          *)

MaxRuleLen == 3

\* a missing phrase as rules.py reads it
RuleMissingPhrases ==
    { [phrase |-> "Risk warning", required |-> TRUE],
      [phrase |-> "Contact details", required |-> FALSE] }

RuleViolations == { "Guaranteed return or profit claim" }

InitRules ==
    /\ rule_pc = "classify"
    /\ rule_missing \in SeqsUpTo(RuleMissingPhrases, MaxRuleLen)
    /\ rule_violations \in SeqsUpTo(RuleViolations, MaxRuleLen)
    /\ rule_risk = None /\ rule_approved = None
    /\ IdleDedup
    /\ IdleLocate
    /\ IdlePipeline
    /\ IdleFootnotes
    /\ IdleWrites
    /\ IdleOrder

\* report.py line 1585
ClassifyRiskLevel ==
    /\ rule_pc = "classify"
    /\ rule_pc' = "approve"
    /\ rule_risk' = Some(classify_risk_level(rule_missing, rule_violations))
    /\ UNCHANGED <<rule_missing, rule_violations, rule_approved,
                   dvars, lvars, pvars, fvars, wvars, ovars>>

\* report.py line 1588
DetermineApprovalStatus ==
    /\ rule_pc = "approve"
    /\ rule_pc' = "done"
    /\ rule_approved' = Some(determine_approval_status(rule_risk[1], rule_missing,
                                                       rule_violations))
    /\ UNCHANGED <<rule_missing, rule_violations, rule_risk,
                   dvars, lvars, pvars, fvars, wvars, ovars>>

NextRules == ClassifyRiskLevel \/ DetermineApprovalStatus

SpecRules == InitRules /\ [][NextRules]_vars

-----------------------------------------------------------------------------
(* Claims about deduplicate_violation_details (SpecDedup) *)

\* the findings of vds whose key K no earlier finding of vds has, in order
FirstSeen(vds, K(_)) ==
    LET kept == {i \in 1..Len(vds) : \A j \in 1..(i - 1) : K(vds[j]) # K(vds[i])}
        idx == SortedSeq(kept)
    IN [k \in 1..Len(idx) |-> vds[idx[k]]]

\* lowercased, whitespace-collapsed, truncated to 120 characters
C5_Normalized(text) == Take(JoinSplit(Strip(Lower(text))), 120)

\* the key as the claim words it: the quote if present, else the description,
\* both normalized
C5_ClaimedKey(v) ==
    IF Truthy(v.exact_text) THEN C5_Normalized(v.exact_text[1])
    ELSE C5_Normalized(v.violation)

\* the key as amended: the normalized quote if there is one, else the first 80
\* characters of the description as they are
C5_AmendedKey(v) ==
    IF Truthy(v.exact_text) THEN <<"quote", C5_Normalized(v.exact_text[1])>>
    ELSE <<"desc", Take(v.violation, 80)>>

\* C5 as stated: the findings kept are the first-seen ones per key, the key
\* being the normalized quote or else the normalized description; two
\* findings without a quote that differ only in case or whitespace collapse
C5_Original ==
    vd_pc = "return" => vd_output = FirstSeen(vd_input, C5_ClaimedKey)

\* C5 as amended: the findings kept are the first-seen ones per key, the key
\* being the normalized quote (lowercased, whitespace-collapsed, at most 120
\* characters) or, without a quote, the first 80 characters of the
\* description taken literally; so two findings without a quote whose
\* descriptions differ in letter case or whitespace are both kept
C5_FirstSeenPerKey ==
    vd_pc = "return" => vd_output = FirstSeen(vd_input, C5_AmendedKey)

\* two findings without a quote that differ only in case and whitespace went
\* in, followed by the first again: both came out, the repeat did not
C5_Witness ==
    /\ vd_pc = "return"
    /\ vd_input = << ViolationDetail("Guaranteed return claim", None),
                     ViolationDetail("guaranteed  return claim", None),
                     ViolationDetail("Guaranteed return claim", None) >>
    /\ vd_output = << ViolationDetail("Guaranteed return claim", None),
                      ViolationDetail("guaranteed  return claim", None) >>

-----------------------------------------------------------------------------
(* Claims about the locator (SpecLocate) *)

\* C8: a query of trimmed length below 3 gives find_text_in_pdf no region,
\* and a region find_text_in_pdf_with_fallbacks returns comes from a search
\* of a string of trimmed length at least 3: the query answered is that
\* long, and the text under every region returned is at least 3 characters
C8_ShortQueriesRejected ==
    /\ (loc_call = "find_text_in_pdf" /\ Len(Strip(loc_exact[1])) < 3)
          => loc_results = <<>>
    /\ (loc_call = "find_text_in_pdf_with_fallbacks" /\ loc_results # <<>>)
          => /\ loc_query # None
             /\ Len(Strip(loc_query[1])) >= 3
    /\ \A k \in 1..Len(loc_results) : loc_results[k].rect.len >= 3

\* the cascade ran on a quote and a keyword that are both on a page of the
\* document and both shorter than 3 characters, and returned nothing
C8_Witness ==
    /\ loc_call = "find_text_in_pdf_with_fallbacks"
    /\ loc_exact = Some("We") /\ loc_keyword = Some("of")
    /\ \E p \in 1..Len(loc_doc) :
          Contains(loc_doc[p], "We") /\ Contains(loc_doc[p], "of")
    /\ loc_results = <<>>

\* the steps of the cascade as the claim lists them: the quote, its first 80,
\* 40 and 20 characters when it is longer than that, the keyword
C22_Steps ==
    (IF loc_exact = None THEN <<>>
     ELSE <<Strip(loc_exact[1])>>
          \o (IF Len(loc_exact[1]) > 80 THEN <<Strip(Take(loc_exact[1], 80))>> ELSE <<>>)
          \o (IF Len(loc_exact[1]) > 40 THEN <<Strip(Take(loc_exact[1], 40))>> ELSE <<>>)
          \o (IF Len(loc_exact[1]) > 20 THEN <<Strip(Take(loc_exact[1], 20))>> ELSE <<>>))
    \o (IF loc_keyword = None THEN <<>> ELSE <<Strip(loc_keyword[1])>>)

\* the first step whose search finds a region, 0 when none does
C22_FirstHit ==
    FirstIn({i \in 1..Len(C22_Steps) : find_text_in_pdf(loc_doc, C22_Steps[i]) # <<>>})

\* the steps up to the first one that finds a region
C22_Allowed ==
    Take(C22_Steps, IF C22_FirstHit = 0 THEN Len(C22_Steps) ELSE C22_FirstHit)

\* C22: find_text_in_pdf_with_fallbacks returns the result of the first
\* search that finds a region, in the order quote, first 80 characters (quote
\* longer than 80), first 40 (longer than 40), first 20 (longer than 20),
\* keyword; a step is searched only when every step before it found nothing,
\* and the result is empty only when every step found nothing
C22_FirstNonEmptyStep ==
    loc_call = "find_text_in_pdf_with_fallbacks" =>
        /\ loc_results = IF C22_FirstHit = 0 THEN <<>>
                         ELSE find_text_in_pdf(loc_doc, C22_Steps[C22_FirstHit])
        /\ loc_results = <<>> <=> C22_FirstHit = 0
        /\ C22_FirstHit # 0 =>
              /\ loc_searched # <<>>
              /\ loc_searched[Len(loc_searched)] = C22_Steps[C22_FirstHit]
              /\ loc_query = Some(C22_Steps[C22_FirstHit])
        /\ \E f \in [1..Len(loc_searched) -> 1..Len(C22_Allowed)] :
              /\ \A k \in 1..Len(loc_searched) : loc_searched[k] = C22_Allowed[f[k]]
              /\ \A j, k \in 1..Len(loc_searched) : j < k => f[j] < f[k]

\* a quote longer than 80 characters that leaves the document after its 45th:
\* the quote and its first 80 characters found nothing, its first 40 did, and
\* the keyword, which is in the document, was not searched
C22_Witness ==
    /\ loc_call = "find_text_in_pdf_with_fallbacks"
    /\ loc_exact # None /\ Len(loc_exact[1]) > 80
    /\ loc_keyword # None /\ find_text_in_pdf(loc_doc, loc_keyword[1]) # <<>>
    /\ loc_searched = <<Strip(loc_exact[1]), Strip(Take(loc_exact[1], 80)),
                        Strip(Take(loc_exact[1], 40))>>
    /\ loc_results # <<>>
    /\ loc_results = find_text_in_pdf(loc_doc, Take(loc_exact[1], 40))

OnPage(quote) == {p \in 1..Len(loc_doc) : Contains(loc_doc[p], quote)}

\* a region of the results that lies on a page containing the quote
C9_RegionOnPageOf(quote) ==
    \E k \in 1..Len(loc_results) : (loc_results[k].page_num + 1) \in OnPage(quote)

\* C9 as stated: every quote that is verbatim on some page gets at least
\* one region from find_text_in_pdf, one of them on a page holding the quote
C9_Original ==
    (loc_call = "find_text_in_pdf" /\ OnPage(loc_exact[1]) # {})
        => loc_results # <<>> /\ C9_RegionOnPageOf(loc_exact[1])

\* C9 as amended: every quote of trimmed length at least 3 that is verbatim
\* on some page gets at least one region from find_text_in_pdf, and every
\* page holding the quote holds a region whose text is the trimmed quote
C9_VerbatimQuoteLocated ==
    (loc_call = "find_text_in_pdf" /\ Len(Strip(loc_exact[1])) >= 3
        /\ OnPage(loc_exact[1]) # {})
        => /\ loc_results # <<>>
           /\ \A p \in OnPage(loc_exact[1]) :
                 \E k \in 1..Len(loc_results) :
                    /\ loc_results[k].page_num + 1 = p
                    /\ get_textbox(loc_doc[p], loc_results[k].rect) = Strip(loc_exact[1])

\* a quote that is on pages 1 and 3 was searched and located on both
C9_Witness ==
    /\ loc_call = "find_text_in_pdf"
    /\ loc_exact = Some(QuoteReturn)
    /\ OnPage(QuoteReturn) = {1, 3}
    /\ {loc_results[k].page_num : k \in 1..Len(loc_results)} = {0, 2}

-----------------------------------------------------------------------------
(* Claims about one request (Spec) *)

\* the comment list is final: DedupAndSort has run, or the no-issue path returned
FinalList == pc \in {"save", "save_full", "returned", "raised", "done"}

\* process_pdf_page_by_page has returned a value
HasReturned == pc \in {"returned", "done"} /\ returned.value # None

\* the final comments that came from the log entry e of an issue
CommentsOf(e) ==
    {j \in 1..Len(comments) : e.first_seq <= comments[j].seq /\ comments[j].seq <= e.last_seq}

\* C1: the comment list process_pdf_page_by_page returns is in non-decreasing
\* page order, and comments of one page are in the order they were appended
C1_SortedByPageStable ==
    HasReturned =>
        LET cs == returned.value[1].comments
        IN \A i, j \in 1..Len(cs) :
              i < j => \/ cs[i].page < cs[j].page
                       \/ cs[i].page = cs[j].page /\ cs[i].seq < cs[j].seq

\* a returned list with two comments of one page, whose order of appending
\* was not the page order
C1_Witness ==
    /\ HasReturned
    /\ LET cs == returned.value[1].comments
       IN /\ \E i, j \in 1..Len(cs) : i < j /\ cs[i].page = cs[j].page
          /\ \E i, j \in 1..Len(cs) : i < j /\ cs[i].seq > cs[j].seq

\* where the claim places a comment: a document-wide finding, a finding of a
\* disclaimer, a formatting issue, a footnote issue
C23_Rank(c) ==
    IF c.type = "Footnote" THEN 4
    ELSE IF c.type \in {"Red text", "Existing highlight"} THEN 3
    ELSE IF c.jurisdiction = Some("Document-wide") THEN 1
    ELSE 2

\* C23: comments are appended in the order document-wide findings, findings
\* of the disclaimers, formatting issues, footnote issues, the violations of
\* one result before its missing requirements; hence among the comments of
\* one page in the returned list every formatting comment precedes every
\* footnote comment
C23_FormattingBeforeFootnotes ==
    /\ pc = "dedup" =>
          \A i, j \in 1..Len(comments) :
             i < j => /\ C23_Rank(comments[i]) <= C23_Rank(comments[j])
                      /\ (/\ C23_Rank(comments[i]) = C23_Rank(comments[j])
                          /\ comments[i].jurisdiction = Some("Document-wide")
                          /\ Cardinality({k \in 1..Len(checklist_results) :
                                     checklist_results[k].jurisdiction = None}) = 1
                          /\ comments[i].type = "Missing Required")
                         => comments[j].type = "Missing Required"
    /\ HasReturned =>
          LET cs == returned.value[1].comments
          IN \A i, j \in 1..Len(cs) :
                (/\ cs[i].page = cs[j].page
                 /\ C23_Rank(cs[i]) = 3
                 /\ C23_Rank(cs[j]) = 4) => i < j

\* the findings are processed: the loops of lines 464-715 are done
C24_Processed == pc \in {"dedup", "save", "save_full", "returned", "raised", "done"}

\* C24: every distinct violation or missing-requirement finding takes one
\* slot of the palette of 10 colours: the k-th finding processed (from 0,
\* located or not) gets palette[k mod 10], every comment of a finding has
\* that colour, and no finding takes more than one slot
C24_OneSlotPerFinding ==
    C24_Processed =>
        /\ color_index = Cardinality({issue_log[n].finding : n \in 1..Len(issue_log)})
        /\ \A a, b \in 1..Len(issue_log) :
              issue_log[a].finding = issue_log[b].finding => a = b
        /\ \A n \in 1..Len(issue_log) : \A j \in CommentsOf(issue_log[n]) :
              comments[j].color = ColorPalette[((n - 1) % 10) + 1]

\* the highlights painted for the finding f on the region r
C28_Highlights(f, r) ==
    {k \in 1..Len(annots) :
        /\ annots[k].kind = "highlight"
        /\ annots[k].page_num = r.page_num /\ annots[k].rect = r.rect
        /\ \E i \in 1..Len(issue_log) :
              /\ issue_log[i].finding = f
              /\ issue_log[i].first_annot <= k /\ k <= issue_log[i].last_annot}

\* C28: in one annotate call every finding of every checklist result is
\* processed at most once, and for every finding and region at most one
\* highlight is painted, also when a detected disclaimer has no jurisdiction
\* or two detected disclaimers have the same jurisdiction
C28_EachFindingProcessedOnce ==
    pc = "dedup" =>
        \A i \in 1..Len(issue_log) :
            /\ Cardinality({n \in 1..Len(issue_log) :
                                issue_log[n].finding = issue_log[i].finding}) <= 1
            /\ \A k \in 1..Len(issue_log[i].regions) :
                  Cardinality(C28_Highlights(issue_log[i].finding,
                                             issue_log[i].regions[k])) <= 1

\* the highlights painted for the comment numbered seq: for the k-th region
\* of a finding the k-th highlight of its processing, for a footnote issue
\* the highlight of its step
C29_HighlightsOf(seq) ==
    {h \in 1..Len(annots) :
        /\ annots[h].kind = "highlight"
        /\ \/ \E i \in 1..Len(issue_log) :
                 /\ issue_log[i].first_seq <= seq /\ seq <= issue_log[i].last_seq
                 /\ issue_log[i].regions # <<>>
                 /\ h = issue_log[i].first_annot + 2 * (seq - issue_log[i].first_seq)
           \/ \E i \in 1..Len(footnote_log) :
                 /\ footnote_log[i].seq = seq
                 /\ footnote_log[i].first_annot <= h /\ h <= footnote_log[i].last_annot}

\* C29: every comment a highlight was painted for names the page of that
\* highlight (comment.page = page index of the highlight + 1), also for a
\* footnote issue highlighted at the recorded location of the footnote's
\* definition
C29_CommentNamesHighlightPage ==
    \A j \in 1..Len(comments) : \A h \in C29_HighlightsOf(comments[j].seq) :
        comments[j].page = annots[h].page_num + 1

\* C30: when the analysis result is approved and has no footnote issue and
\* no formatting issue, process_pdf_page_by_page takes the path without
\* issues: nothing is processed or painted, the one save is the plain one and
\* the comment list is empty; so a comment in the list means the result is
\* not approved or has a footnote or formatting issue
C30_ApprovedIsNoOp ==
    /\ (/\ pc \notin {"scan", "chunked", "multi_call", "aggregate", "formatting_checks",
                       "annotate"}
        /\ is_approved = Some(TRUE)
        /\ footnote_issues = <<>> /\ formatting_issues = <<>>)
          => /\ comments = <<>> /\ annots = <<>> /\ issue_log = <<>>
             /\ \A n \in 1..Len(save_log) : ~save_log[n].incremental
             /\ HasReturned => returned.value[1] = [pdf |-> PdfBytes(pdf_doc, <<>>),
                                                    comments |-> <<>>]
    /\ comments # <<>> =>
          \/ is_approved = Some(FALSE)
          \/ footnote_issues # <<>> \/ formatting_issues # <<>>

\* an approved result without footnote or formatting issue came back
C30_Witness ==
    /\ HasReturned
    /\ is_approved = Some(TRUE)
    /\ footnote_issues = <<>> /\ formatting_issues = <<>>
    /\ Len(save_log) = 1
    /\ returned.value[1].comments = <<>>

\* the key of the claim: the first 80 characters of the message, the first
\* 60 of the highlighted text or, when that is empty, of the search text, and
\* the page
C25_Key(c) ==
    << SubSeq(c.text, 1, Min(80, Len(c.text))),
       IF c.highlighted_text # ""
       THEN SubSeq(c.highlighted_text, 1, Min(60, Len(c.highlighted_text)))
       ELSE IF c.search_text # None
       THEN SubSeq(c.search_text[1], 1, Min(60, Len(c.search_text[1])))
       ELSE "",
       c.page >>

\* out is cs without the comments whose key an earlier comment of cs has
C25_FirstOfEachKey(cs, out) ==
    /\ \A i, j \in 1..Len(out) : C25_Key(out[i]) = C25_Key(out[j]) => i = j
    /\ \A j \in 1..Len(out) : \E i \in 1..Len(cs) :
          /\ cs[i] = out[j]
          /\ \A h \in 1..(i - 1) : C25_Key(cs[h]) # C25_Key(cs[i])
    /\ \A i \in 1..Len(cs) : \E j \in 1..Len(out) : C25_Key(out[j]) = C25_Key(cs[i])

C2_NoIssues ==
    /\ missing_required_phrases = <<>>
    /\ \A i \in 1..Len(checklist_results) :
          /\ checklist_results[i].violations = <<>>
          /\ checklist_results[i].missing_required = <<>>
    /\ footnote_issues = <<>>
    /\ formatting_issues = <<>>

\* C2: on an analysis result without missing phrases, violations, missing
\* requirements, footnote issues and formatting issues the annotator adds no
\* annotation and the comment list it returns is empty
C2_NoIssueNoAnnotation ==
    pc \in {"disclaimers", "dedup", "save", "save_full", "returned", "raised", "done"}
    /\ C2_NoIssues
    => /\ annots = <<>>
       /\ comments = <<>>
       /\ HasReturned => /\ returned.value[1].comments = <<>>
                         /\ returned.value[1].pdf = PdfBytes(pdf_doc, <<>>)

\* a document with a detected disclaimer and every check run came back clean
C2_Witness ==
    /\ pc = "returned"
    /\ C2_NoIssues
    /\ gemini_api_key
    /\ all_detected # <<>>
    /\ Len(checklist_results) = 2
    /\ returned.value[1].comments = <<>>

\* the quote keys that the regex scan and a per-jurisdiction check both report
C3_SharedKeys ==
    LET Keys(quotes) == {_normalize_exact_key(q) : q \in {x \in quotes : Truthy(x)}} \ {""}
        scan == Keys({red_flag_details[i].exact_text : i \in 1..Len(red_flag_details)})
        OfResult(res) ==
            Keys({res.violation_details[i].exact_text : i \in 1..Len(res.violation_details)}
                 \cup {res.missing_required[i].exact_highlight_text :
                          i \in 1..Len(res.missing_required)})
    IN {k \in scan : \E i \in 1..Len(disclaimer_checklist_results) :
                        k \in OfResult(disclaimer_checklist_results[i])}

\* the regions of a quote key on page p (1-based)
C3_Regions(k, p) ==
    LET found == find_text_in_pdf(pdf_doc, k)
    IN {i \in 1..Len(found) : found[i].page_num = p - 1}

\* C3: a phrase reported by the regex scan and by a per-jurisdiction check
\* is in the final comment list once per located region, not twice
C3_OncePerRegion ==
    FinalList =>
        \A k \in C3_SharedKeys : \A p \in 1..Len(pdf_doc) :
            Cardinality({j \in 1..Len(comments) :
                            /\ comments[j].page = p
                            /\ _normalize_exact_key(Some(comments[j].highlighted_text)) = k})
                <= Cardinality(C3_Regions(k, p))

\* the number of findings of the aggregated results that carry the quote key k
C4_FindingsWithKey(k) ==
    LET InResult(res) ==
            Cardinality({i \in 1..Len(res.violation_details) :
                            _normalize_exact_key(res.violation_details[i].exact_text) = k})
            + Cardinality({i \in 1..Len(res.missing_required) :
                            _normalize_exact_key(res.missing_required[i].exact_highlight_text) = k})
        RECURSIVE Sum(_)
        Sum(i) == IF i > Len(checklist_results) THEN 0
                  ELSE InResult(checklist_results[i]) + Sum(i + 1)
    IN Sum(1)

\* the quote keys of the findings that went into the aggregation
C4_InputKeys ==
    LET Keys(quotes) == {_normalize_exact_key(q) : q \in {x \in quotes : Truthy(x)}} \ {""}
        OfResult(res) ==
            Keys({res.violation_details[i].exact_text : i \in 1..Len(res.violation_details)}
                 \cup {res.missing_required[i].exact_highlight_text :
                          i \in 1..Len(res.missing_required)})
    IN UNION ({OfResult(document_checklist_results[i]) :
                    i \in 1..Len(document_checklist_results)}
              \cup {OfResult(disclaimer_checklist_results[i]) :
                    i \in 1..Len(disclaimer_checklist_results)})

\* C4: the aggregated results hold exactly one finding per normalized quote
\* key, counting findings of every variant across all results of the request
C4_OneFindingPerQuoteKey ==
    pc \notin {"scan", "chunked", "multi_call", "aggregate"} =>
        \A k \in C4_InputKeys : C4_FindingsWithKey(k) = 1

\* the findings every processing of which resolved no region
C6_Unlocated ==
    {f \in {issue_log[i].finding : i \in 1..Len(issue_log)} :
        \A i \in 1..Len(issue_log) : issue_log[i].finding = f => issue_log[i].regions = <<>>}

\* C6: a finding for which no region resolves has exactly one comment in the
\* final list, on the anchor page of its disclaimer or on page 1, and no highlight
C6_OneCommentWhenUnlocated ==
    FinalList =>
        \A f \in C6_Unlocated :
            LET entries == {i \in 1..Len(issue_log) : issue_log[i].finding = f}
                mine == UNION {CommentsOf(issue_log[i]) : i \in entries}
            IN /\ Cardinality(mine) = 1
               /\ \A j \in mine : \E i \in entries :
                     comments[j].page = issue_log[i].unlocated_page
               /\ \A i \in entries : issue_log[i].last_annot < issue_log[i].first_annot

\* the log entries of issues for which at least one region resolved
C7_Located == {i \in 1..Len(issue_log) : issue_log[i].regions # <<>>}

\* the page (1-based) and the boxed text of a region
C7_Boxed(r) == <<r.page_num + 1, get_textbox(pdf_doc[r.page_num + 1], r.rect)>>

\* C7 as the specification words it: an issue with k located regions has
\* exactly k comments in the final list
C7_Original ==
    FinalList =>
        \A i \in C7_Located :
            Cardinality(CommentsOf(issue_log[i])) = Len(issue_log[i].regions)

\* C7: every located region of an issue has exactly one comment in the final
\* list with the issue's reason, the region's page and the region's text; an
\* issue has at most one comment per page and boxed text of its regions, so
\* regions on different pages keep separate comments
C7_OneCommentPerPageAndText ==
    FinalList =>
        \A i \in C7_Located :
            LET e == issue_log[i]
                boxes == {C7_Boxed(e.regions[n]) : n \in 1..Len(e.regions)}
            IN /\ \A b \in boxes :
                     Cardinality({j \in 1..Len(comments) :
                                     /\ comments[j].page = b[1]
                                     /\ Take(comments[j].text, 80) = Take(e.reason, 80)
                                     /\ Take(comments[j].highlighted_text, 60) = Take(b[2], 60)})
                        = 1
               /\ Cardinality(CommentsOf(e)) <= Cardinality(boxes)
               /\ \A j \in CommentsOf(e) : <<comments[j].page, comments[j].highlighted_text>> \in boxes

\* one issue with two regions of the same text on one page kept one comment,
\* another with regions on two pages kept one comment per page
C7_Witness ==
    /\ pc = "save"
    /\ \E i \in C7_Located :
          /\ Len(issue_log[i].regions) = 2
          /\ Cardinality(CommentsOf(issue_log[i])) = 1
    /\ \E i \in C7_Located :
          /\ Cardinality({issue_log[i].regions[n].page_num : n \in 1..Len(issue_log[i].regions)}) = 2
          /\ Cardinality(CommentsOf(issue_log[i])) = 2

\* a save of this request raised
C10_SaveFailed == \E i \in 1..Len(save_log) : ~save_log[i].ok

\* C10 as the specification words it: when saving fails the annotator
\* returns the original bytes and an empty comment list
C10_Original ==
    pc \in {"returned", "raised"} /\ C10_SaveFailed
    => /\ returned.raised = None
       /\ returned.value = Some([pdf |-> PdfBytes(pdf_doc, <<>>), comments |-> <<>>])

\* C10: when only the incremental save fails the annotator returns the
\* annotated document of the full save with its comments; when the full save
\* or the plain save of the no-issue path fails, the annotator raises and the
\* request is answered with an error status and no document
C10_SaveFailureOutcome ==
    /\ pc \in {"returned", "raised", "done"} /\ C10_SaveFailed /\ save_log[Len(save_log)].ok
       => /\ Len(save_log) = 2
          /\ save_log[1].incremental /\ ~save_log[2].incremental
          /\ returned.raised = None
          /\ returned.value = Some([pdf |-> PdfBytes(pdf_doc, annots), comments |-> comments])
    /\ pc \in {"returned", "raised", "done"} /\ C10_SaveFailed /\ ~save_log[Len(save_log)].ok
       => /\ ~save_log[Len(save_log)].incremental
          /\ pc # "returned"
          /\ returned.value = None
          /\ returned.raised \in {Some(e) : e \in SaveErrors}
          /\ pc = "done" =>
                /\ response # None
                /\ response[1].status = IF returned.raised = Some("ValueError") THEN 400 ELSE 500
                /\ response[1].annotated_pdf = None
                /\ response[1].comments = <<>>

\* the incremental save and the full save both raised and the request was
\* answered with status 500
C10_Witness ==
    /\ pc = "done"
    /\ Len(save_log) = 2
    /\ ~save_log[1].ok /\ ~save_log[2].ok
    /\ comments # <<>>
    /\ response[1].status = 500

\* C11: on every path that writes the output the first save is incremental,
\* a full save is made only after the incremental save raised, and the
\* annotator raises only after the full save raised as well
C11_IncrementalFirst ==
    /\ save_log # <<>> => save_log[1].incremental
    /\ \A i \in 2..Len(save_log) :
          /\ ~save_log[i].incremental
          /\ save_log[i - 1].incremental /\ ~save_log[i - 1].ok
    /\ pc = "raised" =>
          /\ Len(save_log) = 2
          /\ ~save_log[1].ok /\ ~save_log[2].ok

\* the checks generate_analysis_result has invoked so far
Invoked(name) == \E i \in 1..Len(call_log) : call_log[i] = name

\* the chunked pass has been passed by (line 1511 is behind)
PastChunkedPass == pc \notin {"idle", "scan", "chunked"}

\* C14: the chunked classifier pass is invoked exactly when the PDF bytes are
\* present and the deduplicated red-flag scan returned no violation, and when
\* the scan found a violation no chunk is sent to the classifier
C14_ChunkedPassIffNoRedFlag ==
    /\ PastChunkedPass =>
          (Invoked("check_entire_document_compliance_chunked")
              <=> (pdf_doc # <<>> /\ red_flag_details = <<>>))
    /\ ~PastChunkedPass => ~Invoked("check_entire_document_compliance_chunked")
    /\ red_flag_details # <<>> \/ ~PastChunkedPass => chunks_sent = 0

\* the scan found a violation, a classifier key is configured, and the
\* request went on without the chunked pass
C14_Witness ==
    /\ pc = "multi_call"
    /\ red_flag_details # <<>> /\ gemini_api_key
    /\ ~Invoked("check_entire_document_compliance_chunked")
    /\ chunks_sent = 0

\* the analysis result is complete (line 1665 is reached)
AnalysisReturned == pc \notin {"idle", "scan", "chunked", "multi_call", "aggregate",
                               "formatting_checks"}

\* the results of the per-jurisdiction pass within checklist_results
C15_DisclaimerPart ==
    SubSeq(checklist_results, Len(document_checklist_results) + 1, Len(checklist_results))

C16_DocumentPart == SubSeq(checklist_results, 1, Len(document_checklist_results))

\* the quote keys of the violations of a list of results
C16_Keys(results) ==
    {_normalize_exact_key(v.exact_text) :
        v \in UNION {Range(results[i].violation_details) : i \in 1..Len(results)}} \ {""}

\* C16: in the returned checklist results no per-jurisdiction result holds a
\* violation whose normalized quote key is also the key of a violation of the
\* document-wide result
C16_DocumentWideTakesPrecedence ==
    AnalysisReturned => C16_Keys(C15_DisclaimerPart) \cap C16_Keys(C16_DocumentPart) = {}

\* the disclaimer check found a violation with the quote key of a document-wide
\* one, and the analysis result is out
C16_Witness ==
    /\ pc = "annotate"
    /\ C16_Keys(disclaimer_checklist_results) \cap C16_Keys(C16_DocumentPart) # {}

-----------------------------------------------------------------------------
(* Claims about footnotes.py (SpecFootnotes) *)

\* the three functions of run_footnote_and_formatting_checks have returned
ChecksReturned == fn_pc \in {"find", "done"}

\* the labels the footnote-zone lines of page q open
C13_LabelsOf(q) ==
    {LabelMatch(Strip(s.text))[1].key :
        s \in {t \in Range(FootnoteZoneSpans(fn_doc[q])) :
                  Len(Strip(t.text)) >= 2 /\ LabelMatch(Strip(t.text)) # None}}

\* what page q gives each of the three results when it is read
C13_Contributes(q) ==
    /\ \A key \in C13_LabelsOf(q) : DictHas(footnotes, key)
    /\ footnotes # <<>> =>
          Range(CheckSpans(BodyZoneSpans(fn_doc[q]), 1, q, footnotes, {}, <<>>))
              \subseteq Range(fn_issues)
    /\ Range(ColorIssuesOfPage(fn_doc[q], q)) \subseteq Range(unusual_color_issues)

\* C13: when layout extraction raises on one page p, the three results lack
\* only what page p would have given: every other page, before and after p,
\* has its labels, reference issues and colour issues in them
C13_OnlyFailedPageLost ==
    ChecksReturned /\ fn_fail # 0 =>
        \A q \in (1..Len(fn_doc)) \ {fn_fail} : C13_Contributes(q)

\* C18: every continuation line of the footnote zone is appended to the label
\* that was opened last, also when that label had been opened before
C18_ContinuationToLastOpened ==
    \A i \in 1..Len(fn_continuations) :
        fn_continuations[i].last_opened = Some(fn_continuations[i].appended_to)

\* the body spans of the page looked up whose trimmed text is the reference
C19_Body == BodyZoneSpans(fn_doc[fn_query[1].page])

C19_Matches == {i \in 1..Len(C19_Body) :
                   Strip(C19_Body[i].text) = Strip(fn_query[1].ref_text)}

\* those of them not larger than 0.92 times the median size of the body spans
C19_SmallMatches ==
    {i \in C19_Matches :
        200 * C19_Body[i].size
            <= 92 * Median2([k \in 1..Len(C19_Body) |-> C19_Body[k].size])}

\* C19: find_ref_bbox_on_page returns the first exact match that is small
\* when there is one, and the first exact match otherwise
C19_SmallMatchPreferred ==
    (/\ fn_pc = "done"
     /\ fn_query[1].page \in 1..Len(fn_doc) /\ fn_query[1].page # fn_fail
     /\ Strip(fn_query[1].ref_text) # "")
    => candidate_bbox =
          IF C19_SmallMatches # {} THEN C19_Body[FirstIn(C19_SmallMatches)].bbox
          ELSE IF C19_Matches # {} THEN C19_Body[FirstIn(C19_Matches)].bbox
          ELSE None

\* a span text that is all digits or all asterisks once trimmed
C20_IsMarker(text) ==
    /\ Strip(text) # ""
    /\ \/ \A i \in 1..Len(Strip(text)) : Char(Strip(text), i) \in Digits
       \/ \A i \in 1..Len(Strip(text)) : Char(Strip(text), i) = "*"

\* the body spans of page q that are markers
C20_Markers(q) ==
    {i \in 1..Len(BodyZoneSpans(fn_doc[q])) : C20_IsMarker(BodyZoneSpans(fn_doc[q])[i].text)}

C20_MarkerValues(q) == {Strip(BodyZoneSpans(fn_doc[q])[i].text) : i \in C20_Markers(q)}

C20_IssuesFor(q, value) ==
    {i \in 1..Len(fn_issues) : fn_issues[i].page = q /\ fn_issues[i].reference = value}

\* one issue for each marker value of page q that is no label, none otherwise
C20_PageChecked(q) ==
    /\ \A value \in C20_MarkerValues(q) :
          Cardinality(C20_IssuesFor(q, value))
              = IF DictHas(footnotes, value) THEN 0 ELSE 1
    /\ \A i \in 1..Len(fn_issues) :
          fn_issues[i].page = q =>
              /\ fn_issues[i].reference \in C20_MarkerValues(q)
              /\ fn_issues[i].issue_type = "footnote_reference_missing"

\* the claim as the specification has it: for every labels map
C20_Original ==
    fn_pc \in {"color", "find", "done"} =>
        \A q \in 1..PagesRead(fn_doc, fn_fail) : C20_PageChecked(q)

\* C20: for every labels map that is not empty and every page read,
\* check_footnote_references emits exactly one footnote_reference_missing
\* issue for each distinct marker value of the page that is no label and none
\* for a label; for an empty labels map it emits nothing
C20_OncePerMissingMarker ==
    fn_pc \in {"color", "find", "done"} =>
        /\ footnotes # <<>> => \A q \in 1..PagesRead(fn_doc, fn_fail) : C20_PageChecked(q)
        /\ footnotes = <<>> => fn_issues = <<>>
        /\ \A i \in 1..Len(fn_issues) : fn_issues[i].page \in 1..PagesRead(fn_doc, fn_fail)

\* a page with a marker value that is no label and stands in two body spans,
\* reported once
C20_Witness ==
    /\ fn_pc = "done" /\ footnotes # <<>>
    /\ \E q \in 1..PagesRead(fn_doc, fn_fail) :
          \E i, j \in C20_Markers(q) :
              /\ i < j
              /\ Strip(BodyZoneSpans(fn_doc[q])[i].text) = Strip(BodyZoneSpans(fn_doc[q])[j].text)
              /\ ~DictHas(footnotes, Strip(BodyZoneSpans(fn_doc[q])[i].text))
              /\ Cardinality(C20_IssuesFor(q, Strip(BodyZoneSpans(fn_doc[q])[i].text))) = 1

\* the spans of page q of the document under check
C21_Spans(q) == {fn_doc[q].spans[i] : i \in 1..Len(fn_doc[q].spans)}

\* page q has text and all of it is in the footnote zone
C21_NotesOnly(q) ==
    /\ fn_doc[q].spans # <<>>
    /\ \A s \in C21_Spans(q) : InFootnoteZone(fn_doc[q], s)

\* C21: the threshold of three quarters of the page height partitions the
\* text blocks of a page: a block is scanned for footnote definitions exactly
\* when its top is at or beyond the threshold and for reference markers
\* exactly when it is before it, so every block is scanned by one of the two
\* and none by both; every reported reference and every recorded footnote
\* location comes from its own zone, and a page whose blocks are all in the
\* footnote zone yields no reference issue
C21_ZonesPartitionBlocks ==
    /\ \A q \in 1..Len(fn_doc) : \A s \in C21_Spans(q) :
          /\ InFootnoteZone(fn_doc[q], s) <=> 4 * s.y0 >= 3 * fn_doc[q].height
          /\ InBodyZone(fn_doc[q], s) <=> 4 * s.y0 < 3 * fn_doc[q].height
          /\ InFootnoteZone(fn_doc[q], s) <=> ~InBodyZone(fn_doc[q], s)
    /\ \A i \in 1..Len(fn_issues) :
          /\ ~C21_NotesOnly(fn_issues[i].page)
          /\ \E s \in C21_Spans(fn_issues[i].page) :
                /\ s.bbox = fn_issues[i].bbox
                /\ ~InFootnoteZone(fn_doc[fn_issues[i].page], s)
    /\ \A i \in 1..Len(footnote_locations) :
          \E s \in C21_Spans(footnote_locations[i].page) :
             /\ s.bbox = Some(footnote_locations[i].bbox)
             /\ InFootnoteZone(fn_doc[footnote_locations[i].page], s)

\* the checks have run over a document with a marker on the threshold and a
\* page of notes only that holds a marker without a footnote; the references
\* of the body were reported
C21_Witness ==
    /\ ChecksReturned
    /\ fn_fail = 0
    /\ footnotes # <<>>
    /\ fn_issues # <<>>
    /\ \E q \in 1..Len(fn_doc) : \E s \in C21_Spans(q) :
          /\ 4 * s.y0 = 3 * fn_doc[q].height
          /\ _span_is_footnote_ref(s.text) # None
    /\ \E q \in 1..Len(fn_doc) :
          /\ C21_NotesOnly(q)
          /\ \E s \in C21_Spans(q) :
                /\ _span_is_footnote_ref(s.text) # None
                /\ ~DictHas(footnotes, _span_is_footnote_ref(s.text)[1])

\* the bytes of a packed colour
C26_R(color) == (color \div 65536) % 256
C26_G(color) == (color \div 256) % 256
C26_B(color) == color % 256

\* the colour test of the claim
C26_RedColour(color) ==
    /\ color # 0
    /\ C26_R(color) >= 100 /\ C26_G(color) <= 120 /\ C26_B(color) <= 120
    /\ (C26_R(color) > C26_G(color) \/ C26_R(color) > C26_B(color))

\* the span s of page q is among the issues returned
C26_Flagged(q, s) ==
    \E i \in 1..Len(unusual_color_issues) :
       /\ unusual_color_issues[i].page = q
       /\ Some(unusual_color_issues[i].bbox) = s.bbox

C26_Returned == fn_pc \in {"find", "done"}

\* the claim as the specification has it: the colour alone decides, whatever
\* the length of the text
C26_Original ==
    C26_Returned =>
        \A q \in 1..PagesRead(fn_doc, fn_fail) : \A s \in C21_Spans(q) :
            C26_Flagged(q, s) <=> C26_RedColour(s.color)

\* C26: get_unusual_colored_text flags a span of a page it reads if and only
\* if the trimmed text of the span has two characters or more and its packed
\* colour is not 0 with R >= 100, G <= 120, B <= 120 and (R > G or R > B); it
\* returns one issue per flagged span and none from a page it does not read
C26_RedTextFlagged ==
    C26_Returned =>
        /\ \A q \in 1..PagesRead(fn_doc, fn_fail) : \A s \in C21_Spans(q) :
              C26_Flagged(q, s) <=> (Len(Strip(s.text)) >= 2 /\ C26_RedColour(s.color))
        /\ \A i \in 1..Len(unusual_color_issues) :
              /\ unusual_color_issues[i].page \in 1..PagesRead(fn_doc, fn_fail)
              /\ \E s \in C21_Spans(unusual_color_issues[i].page) :
                    Some(unusual_color_issues[i].bbox) = s.bbox
        /\ \A i, j \in 1..Len(unusual_color_issues) :
              (/\ unusual_color_issues[i].page = unusual_color_issues[j].page
               /\ unusual_color_issues[i].bbox = unusual_color_issues[j].bbox) => i = j

\* the page of edge colours was read: the colour with R = 100 and G = 120 is
\* flagged, the one with R = 99 and the one with G = 121 are not, and the red
\* letter is not
C26_Witness ==
    /\ C26_Returned /\ fn_fail = 0
    /\ \E q \in 1..Len(fn_doc) :
          /\ \E s \in C21_Spans(q) :
                C26_R(s.color) = 100 /\ C26_G(s.color) = 120 /\ C26_Flagged(q, s)
          /\ \E s \in C21_Spans(q) :
                C26_R(s.color) = 100 /\ C26_RedColour(s.color) = FALSE /\ ~C26_Flagged(q, s)
          /\ \E s \in C21_Spans(q) : C26_R(s.color) = 99 /\ ~C26_Flagged(q, s)
          /\ \E s \in C21_Spans(q) : C26_G(s.color) = 121 /\ ~C26_Flagged(q, s)
          /\ \E s \in C21_Spans(q) :
                Len(s.text) = 1 /\ C26_RedColour(s.color) /\ ~C26_Flagged(q, s)

-----------------------------------------------------------------------------
(* Claims about annotation writes (SpecWrites) *)

\* the writes the plan asks for: a highlight and a note for every region
C12_Planned ==
    {w \in [kind : DOMAIN w_plan, region : RegionCounts \ {0},
            annot : {"highlight", "note"}] : w.region <= w_plan[w.kind]}

\* the one write that raised
C12_Skipped ==
    {w \in C12_Planned :
        /\ w.kind = w_fault[1].kind /\ w.region = w_fault[1].region
        /\ w.annot = (IF w_fault[1].write = "note_raises" THEN "note" ELSE "highlight")}

\* C12: when one highlight or note write raises, for a finding of any kind,
\* only that annotation is missing: the annotator returns, every other
\* annotation of the plan is written and every finding has its comment
C12_OnlyThatAnnotationSkipped ==
    w_pc \in {"returned", "raised"} /\ w_fault # None =>
        /\ w_pc = "returned"
        /\ C12_Planned \ C12_Skipped \subseteq Range(w_annots)
        /\ \A kind \in DOMAIN w_plan : \A k \in 1..w_plan[kind] :
              [kind |-> kind, region |-> k] \in Range(w_comments)

-----------------------------------------------------------------------------
(* Claims about the completion order of classifier calls (SpecOrder) *)

\* C17: for the same classifier responses, the aggregated findings (their
\* order and the instance kept of each duplicate) and the comments derived
\* from them (text and colour) are the same whatever order the concurrent
\* per-item and per-chunk calls complete in
C17_SameForEveryOrder ==
    o_pc = "done" => o_outputs[1] = o_outputs[2]

-----------------------------------------------------------------------------
(* Claims about the approval rules (SpecRules) *)

\* C27: for all lists of missing phrases m and violations v the approval
\* computed from the classified risk level is true exactly when m and v are
\* both empty; when it is true the risk level is LOW, and when v is not empty
\* the risk level is HIGH
C27_ApprovedIffNothingFound ==
    /\ rule_pc \in {"approve", "done"} =>
          (rule_violations # <<>> => rule_risk = Some("HIGH"))
    /\ rule_pc = "done" =>
          /\ rule_approved = Some(TRUE) <=> (rule_missing = <<>> /\ rule_violations = <<>>)
          /\ rule_approved = Some(TRUE) => rule_risk = Some("LOW")

\* a list of missing phrases none of which is required, without a violation:
\* the risk level is LOW and the result is not approved
C27_Witness ==
    /\ rule_pc = "done"
    /\ rule_missing # <<>> /\ rule_violations = <<>>
    /\ rule_risk = Some("LOW")
    /\ rule_approved = Some(FALSE)

====
